---------------------------- MODULE Spec2Model ----------------------------
(***************************************************************************)
(* A model of the VP-tree family of the Non-Metric Space Library:          *)
(*   - the pruning oracle PolynomialPruner (searchoracle.h),               *)
(*   - a VP-tree k-NN descent driven by PolynomialPruner::Classify,        *)
(*   - the surrogate wrappers ProjectionVPTree (proj_vptree.cc/.h) and     *)
(*     PermBinVPTree (perm_bin_vptree.cc).                                 *)
(*                                                                         *)
(* Real-valued parameters (alphaLeft, alphaRight, dbScanFrac) are modelled *)
(* as exact rationals <<num, den>> with den > 0; distances are integers.   *)
(***************************************************************************)
EXTENDS Integers, Sequences, FiniteSets, TLC

VARIABLES
  alpha_left_,   \* PolynomialPruner::alpha_left_  (rational <<num, den>>)
  exp_left_,     \* PolynomialPruner::exp_left_    (unsigned)
  alpha_right_,  \* PolynomialPruner::alpha_right_ (rational <<num, den>>)
  exp_right_,    \* PolynomialPruner::exp_right_   (unsigned)
  call,          \* the last Classify call and its decision, or NoCall
  vpData,        \* VP-tree: the indexed objects (a set of points)
  vpQuery,       \* VP-tree: the query point
  vpK,           \* VP-tree: K of the k-NN query
  vpStack,       \* VP-tree: object sets of the subtrees still to be visited
  vpQueue,       \* VP-tree: the k-NN result queue of the query
  vpVisited,     \* VP-tree: the objects offered to the queue so far
  method,        \* the surrogate wrapper that has been constructed, or "none"
  knn_amp_,      \* ProjectionVPTree::knn_amp_
  db_scan_frac_, \* ProjectionVPTree::db_scan_frac_ (rational <<num, den>>)
  db_scan_qty_,  \* PermBinVPTree::db_scan_qty_
  data_,         \* data_: position -> original-space distance of that object
                 \* to the query object
  projData_,     \* projData_ / BinPermData_: position -> id of the surrogate
  query,         \* the caller's query object, or NoQuery
  op,            \* what the last operation on the wrapper did
  tuner,         \* RunExper of tune_vptree: arguments, locals, outputs
  nndes,         \* NNDescentMethodOld: the index and the caller's query
  thr,           \* the threads that run Search on one built wrapper
  reader,        \* ReadDataset: the input lines, the loop's locals, the dataset
  oracle         \* SamplingOracle: its learned tables and the last Classify

prunerVars == <<alpha_left_, exp_left_, alpha_right_, exp_right_>>

vpVars == <<vpData, vpQuery, vpK, vpStack, vpQueue, vpVisited>>

wrapVars == <<method, knn_amp_, db_scan_frac_, db_scan_qty_, data_, projData_,
              query, op>>

moreVars == <<tuner, nndes, thr, reader, oracle>>

vars == <<alpha_left_, exp_left_, alpha_right_, exp_right_, call,
          vpData, vpQuery, vpK, vpStack, vpQueue, vpVisited,
          method, knn_amp_, db_scan_frac_, db_scan_qty_, data_, projData_,
          query, op, tuner, nndes, thr, reader, oracle>>

---------------------------------------------------------------------------
(* Bounds of the model *)

MaxDistVal == 3
MaxRadius == 3
MaxExp == 2
GridW == 2
MaxN == 4
MaxK == 2
BucketSize == 1
DataSize == 3
MaxAmp == 2
MaxOrigDist == 2
MaxRestart == 1
MaxRecall == 2
MaxImpr == 2
MaxNN == 2
MaxAttempts == 2
MaxLines == 3
MaxDim == 2
MaxQuant == 2
MaxQDist == 2

---------------------------------------------------------------------------
(* Rationals *)

One == <<1, 1>>
Zero == <<0, 1>>

\* the stretch coefficients tried by the model (all > 0)
AlphaSet == {<<1, 2>>, <<1, 1>>, <<2, 1>>, <<3, 1>>}

---------------------------------------------------------------------------
(* searchoracle.h: the pruning oracle *)

kVisitLeft == 1
kVisitRight == 2
kVisitBoth == 3

NoCall == [kind |-> "none"]

\* utils.h EfficientPow(Base, Exp): Base^Exp by repeated multiplication,
\* 1 for Exp = 0
RECURSIVE EfficientPow(_, _)
EfficientPow(Base, Exp) ==
  IF Exp = 0 THEN 1 ELSE Base * EfficientPow(Base, Exp - 1)

\* the comparison  double(MaxDist) < alpha * expDiff  with alpha = num/den
LessThanStretched(MaxDist, alpha, expDiff) ==
  MaxDist * alpha[2] < alpha[1] * expDiff

\* mutant: the comparison is not strict
ClassifyNonStrict(aL, eL, aR, eR, distQueryPivot, MaxDist, MedianDist) ==
  IF distQueryPivot <= MedianDist
     /\ MaxDist * aL[2] <= aL[1] * EfficientPow(MedianDist - distQueryPivot, eL)
  THEN kVisitLeft
  ELSE IF distQueryPivot >= MedianDist
          /\ MaxDist * aR[2] <= aR[1] * EfficientPow(distQueryPivot - MedianDist, eR)
       THEN kVisitRight
       ELSE kVisitBoth

\* mutant: the comparison is reversed
ClassifyReversed(aL, eL, aR, eR, distQueryPivot, MaxDist, MedianDist) ==
  IF distQueryPivot <= MedianDist
     /\ MaxDist * aL[2] > aL[1] * EfficientPow(MedianDist - distQueryPivot, eL)
  THEN kVisitLeft
  ELSE IF distQueryPivot >= MedianDist
          /\ MaxDist * aR[2] > aR[1] * EfficientPow(distQueryPivot - MedianDist, eR)
       THEN kVisitRight
       ELSE kVisitBoth

\* mutant: the two one-sided decisions are swapped
ClassifySwapped(aL, eL, aR, eR, distQueryPivot, MaxDist, MedianDist) ==
  IF distQueryPivot <= MedianDist
     /\ LessThanStretched(MaxDist, aL, EfficientPow(MedianDist - distQueryPivot, eL))
  THEN kVisitRight
  ELSE IF distQueryPivot >= MedianDist
          /\ LessThanStretched(MaxDist, aR, EfficientPow(distQueryPivot - MedianDist, eR))
       THEN kVisitLeft
       ELSE kVisitBoth

\* PolynomialPruner::Classify(distQueryPivot, MaxDist, MedianDist) of a pruner
\* with members alpha_left_ = aL, exp_left_ = eL, alpha_right_ = aR,
\* exp_right_ = eR: two consecutive ifs, each with an early return
Classify(aL, eL, aR, eR, distQueryPivot, MaxDist, MedianDist) ==
  LET leftDiff     == MedianDist - distQueryPivot
      leftExpDiff  == EfficientPow(leftDiff, eL)
      rightDiff    == distQueryPivot - MedianDist
      rightExpDiff == EfficientPow(rightDiff, eR)
  IN  IF distQueryPivot <= MedianDist /\ LessThanStretched(MaxDist, aL, leftExpDiff)
      THEN kVisitLeft
      ELSE IF distQueryPivot >= MedianDist /\ LessThanStretched(MaxDist, aR, rightExpDiff)
           THEN kVisitRight
           ELSE kVisitBoth

\* tune_vptree.cc RunExper: the check of the exponent range before tuning
ExpRangeAdmitted(MinExp, MaxExpArg) ==
  /\ ~(MaxExpArg = 0)
  /\ ~(MaxExpArg < MinExp)

---------------------------------------------------------------------------
(* The VP-tree k-NN search (spec section 4.1 and 4.5) *)

\* the distance of an unfilled k-NN queue (+infinity)
InfDist == 2147483647

\* the objects: points of a two-row grid under the L1 distance, a metric
Points == (0..GridW) \X {0, 1}

Abs(x) == IF x < 0 THEN -x ELSE x

Dist(a, b) == Abs(a[1] - b[1]) + Abs(a[2] - b[2])

MaxGridDist == GridW + 1

\* the distances from the query q to the points
DistTo(q) == [x \in Points |-> Dist(q, x)]

\* KNNQueue::TopDistance: the largest distance in the max-heap; d[x] is the
\* distance of object x to the query
TopDistance(queue, d) ==
  CHOOSE m \in {d[x] : x \in queue} : \A y \in queue : d[y] <= m

\* KNNQueue::TopObject: an entry of the largest distance
TopObject(queue, d) ==
  CHOOSE t \in queue : d[t] = TopDistance(queue, d)

\* k-NN queue checkAndAdd(x): push while size < k, else replace the top if x
\* is strictly closer
CheckAndAdd(queue, d, k, x) ==
  IF Cardinality(queue) < k THEN queue \cup {x}
  ELSE IF k > 0 /\ d[x] < TopDistance(queue, d)
       THEN (queue \ {TopObject(queue, d)}) \cup {x}
       ELSE queue

\* k-NN queue maxDist(): the top distance when size = k, else +infinity
QueueMaxDist(queue, d, k) ==
  IF Cardinality(queue) = k /\ k > 0 THEN TopDistance(queue, d) ELSE InfDist

\* a leaf: checkAndAdd of every object of the bucket
RECURSIVE ScanBucket(_, _, _, _)
ScanBucket(queue, d, k, bucket) ==
  IF bucket = {} THEN queue
  ELSE LET x == CHOOSE y \in bucket : TRUE
       IN  ScanBucket(CheckAndAdd(queue, d, k, x), d, k, bucket \ {x})

\* the partition invariant of an internal node: left <= M <= right
PartitionOK(p, M, L, R) ==
  /\ \A x \in L : Dist(p, x) <= M
  /\ \A x \in R : Dist(p, x) >= M

\* the subtrees to visit after Classify, the one holding the query first
ChildrenToVisit(dec, dq, M, L, R) ==
  LET order == IF dec = kVisitLeft THEN <<L>>
               ELSE IF dec = kVisitRight THEN <<R>>
               ELSE IF dq <= M THEN <<L, R>> ELSE <<R, L>>
  IN  SelectSeq(order, LAMBDA S : S # {})

---------------------------------------------------------------------------
(* The surrogate wrappers: proj_vptree.h, proj_vptree.cc, perm_bin_vptree.cc *)

METH_PROJ_VPTREE == "proj_vptree"
METH_PERM_BIN_VPTREE == "perm_bin_vptree"

\* a parameter is a sequence: <<>> when absent, <<value>> when given
Absent == <<>>

Given(S) == {<<v>> : v \in S}

\* the values of dbScanFrac tried by the model
FracSet ==
  {<<-1, 2>>, <<-1, 4>>, <<0, 1>>, <<1, 4>>, <<1, 2>>, <<3, 4>>, <<1, 1>>, <<3, 2>>}

\* the parameter sets handed to a constructor or to SetQueryTimeParams
ParamSets ==
  [dbScanFrac : Given(FracSet) \cup {Absent},
   knnAmp     : Given(0..MaxAmp) \cup {Absent},
   alphaLeft  : Given({<<2, 1>>}) \cup {Absent},
   alphaRight : Given({<<1, 2>>}) \cup {Absent}]

hasParam(pmgr, name) == pmgr[name] # Absent

\* AnyParamManager::GetParamOptional: the value if present, else unchanged
GetParamOptional(pmgr, name, current) ==
  IF hasParam(pmgr, name) THEN pmgr[name][1] ELSE current

\* the positions of the dataset
Ids == 0..(DataSize - 1)

NoQuery == [kind |-> "none"]
NoOp == [name |-> "none"]

Min(a, b) == IF a < b THEN a ELSE b
Max(a, b) == IF a > b THEN a ELSE b

\* data_.size()
DataLen == Cardinality(DOMAIN data_)

\* static_cast<size_t>(frac * n): truncation; the conversion is undefined when
\* the truncated value is negative, and then yields 0 or a huge value (n + 1
\* stands for every value above n)
TruncTimes(frac, n) ==
  LET num == frac[1] * n
      den == frac[2]
  IN  IF num >= 0 THEN {num \div den}
      ELSE IF -num < den THEN {0}
      ELSE {0, n + 1}

\* mutant: computeDbScan ignores K when knn_amp_ is set
computeDbScanNoK(K) ==
  IF knn_amp_ # 0 THEN {Min(knn_amp_, DataLen)}
  ELSE TruncTimes(db_scan_frac_, DataLen)

\* mutant: computeDbScan rounds dbScanFrac * N up and does not cap knnAmp * K
computeDbScanCeil(K) ==
  IF knn_amp_ # 0 THEN {K * knn_amp_}
  ELSE {(db_scan_frac_[1] * DataLen + db_scan_frac_[2] - 1) \div db_scan_frac_[2]}

\* ProjectionVPTree::computeDbScan(K): the outcomes of the call
computeDbScan(K) ==
  IF knn_amp_ # 0 THEN {Min(K * knn_amp_, DataLen)}
  ELSE TruncTimes(db_scan_frac_, DataLen)

\* VPTree::SetQueryTimeParams(params): the pruner takes the stretch
\* coefficients that are given
InnerSetQueryTimeParams(pmgr, aL, aR) ==
  [aL |-> GetParamOptional(pmgr, "alphaLeft", aL),
   aR |-> GetParamOptional(pmgr, "alphaRight", aR)]

\* mutant: the parameter that is not named keeps its value
SetQueryTimeParamsKeepOther(pmgr, st) ==
  LET inner == IF st.built THEN InnerSetQueryTimeParams(pmgr, st.aL, st.aR)
               ELSE [aL |-> st.aL, aR |-> st.aR]
      hasFrac == hasParam(pmgr, "dbScanFrac")
      hasAmp  == hasParam(pmgr, "knnAmp")
      neither == ~hasFrac /\ ~hasAmp
  IN  IF hasFrac /\ hasAmp
      THEN [threw |-> TRUE, knn |-> st.knn, frac |-> st.frac,
            aL |-> inner.aL, aR |-> inner.aR]
      ELSE [threw |-> FALSE,
            knn  |-> GetParamOptional(pmgr, "knnAmp", IF neither THEN 0 ELSE st.knn),
            frac |-> GetParamOptional(pmgr, "dbScanFrac",
                                      IF neither THEN <<0, 1>> ELSE st.frac),
            aL |-> inner.aL, aR |-> inner.aR]

\* mutant: without the reset of both members when neither parameter is named
SetQueryTimeParamsNoResetNeither(pmgr, st) ==
  LET inner == IF st.built THEN InnerSetQueryTimeParams(pmgr, st.aL, st.aR)
               ELSE [aL |-> st.aL, aR |-> st.aR]
      hasFrac == hasParam(pmgr, "dbScanFrac")
      hasAmp  == hasParam(pmgr, "knnAmp")
      frac1 == IF hasAmp THEN <<0, 1>> ELSE st.frac
      knn1  == IF hasAmp THEN st.knn ELSE 0
  IN  IF hasFrac /\ hasAmp
      THEN [threw |-> TRUE, knn |-> st.knn, frac |-> st.frac,
            aL |-> inner.aL, aR |-> inner.aR]
      ELSE [threw |-> FALSE,
            knn  |-> GetParamOptional(pmgr, "knnAmp", knn1),
            frac |-> GetParamOptional(pmgr, "dbScanFrac", frac1),
            aL |-> inner.aL, aR |-> inner.aR]

\* ProjectionVPTree::SetQueryTimeParamsInternal(pmgr) on an object with
\* members st = [built, knn, frac, aL, aR]: the members afterwards, and
\* whether the call threw
SetQueryTimeParamsInternal(pmgr, st) ==
  LET inner == IF st.built THEN InnerSetQueryTimeParams(pmgr, st.aL, st.aR)
               ELSE [aL |-> st.aL, aR |-> st.aR]
      hasFrac == hasParam(pmgr, "dbScanFrac")
      hasAmp  == hasParam(pmgr, "knnAmp")
      frac1 == IF hasAmp THEN <<0, 1>> ELSE st.frac
      knn1  == IF hasAmp THEN st.knn ELSE 0
      frac2 == IF ~hasFrac /\ ~hasAmp THEN <<0, 1>> ELSE frac1
      knn2  == IF ~hasFrac /\ ~hasAmp THEN 0 ELSE knn1
  IN  IF hasFrac /\ hasAmp
      THEN [threw |-> TRUE, knn |-> st.knn, frac |-> st.frac,
            aL |-> inner.aL, aR |-> inner.aR]
      ELSE [threw |-> FALSE,
            knn  |-> GetParamOptional(pmgr, "knnAmp", knn2),
            frac |-> GetParamOptional(pmgr, "dbScanFrac", frac2),
            aL |-> inner.aL, aR |-> inner.aR]

\* mutant: every projection is created with the id of the query projection
ProjectedIdZero(id) == 0

\* the id of the surrogate object made for data[id]:
\* ProjectOneVect(id, NULL, data[id]) and CreateObjFromVect(i, -1, binPivot)
ProjectedId(id) == id

\* AnyParamManager::ExtractParametersExcept: the parameters not named
ExtractParametersExcept(pmgr, names) ==
  [n \in DOMAIN pmgr |-> IF n \in names THEN Absent ELSE pmgr[n]]

\* the stretch coefficient a VP-tree constructed with params gives its
\* polynomial pruner: the parameter if present, else 1.0
VPTreeAlpha(params, name) == GetParamOptional(params, name, One)

\* ProjectionVPTree::ProjectionVPTree with parameters pmgr: the members of
\* the new object, and whether the constructor threw
ProjCtor(pmgr) ==
  LET r == SetQueryTimeParamsInternal(pmgr,
             [built |-> FALSE, knn |-> 0, frac |-> <<0, 1>>, aL |-> One, aR |-> One])
      RemainParams == ExtractParametersExcept(pmgr, {"dbScanFrac", "knnAmp"})
  IN  [threw |-> r.threw, knn |-> r.knn, frac |-> r.frac,
       aL |-> VPTreeAlpha(RemainParams, "alphaLeft"),
       aR |-> VPTreeAlpha(RemainParams, "alphaRight"),
       projData |-> [id \in DOMAIN data_ |-> ProjectedId(id)]]

\* the default of dbScanFrac in PermBinVPTree::PermBinVPTree
DbScanFracDefault == <<1, 20>>

\* PermBinVPTree::PermBinVPTree with parameters pmgr: alphaLeft and alphaRight
\* are read and excluded from the parameters of the underlying VP-tree
PermBinCtor(pmgr) ==
  LET DbScanFrac == GetParamOptional(pmgr, "dbScanFrac", DbScanFracDefault)
      RemainParams ==
        ExtractParametersExcept(pmgr, {"dbScanFrac", "alphaLeft", "alphaRight"})
  IN  [threw |-> DbScanFrac[1] < 0 \/ DbScanFrac[1] > DbScanFrac[2],
       qty |-> Max(1, (DbScanFrac[1] * DataLen) \div DbScanFrac[2]),
       aL |-> VPTreeAlpha(RemainParams, "alphaLeft"),
       aR |-> VPTreeAlpha(RemainParams, "alphaRight"),
       projData |-> [i \in DOMAIN data_ |-> ProjectedId(i)]]

\* the surrogate k-NN search for qty neighbours: min(qty, N) distinct surrogate
\* objects, in the order in which the wrapper pops them from the result queue
SurrogateSearch(qty) ==
  LET m == Min(qty, DataLen)
  IN  {c \in [1..m -> DOMAIN data_] : \A i, j \in 1..m : c[i] = c[j] => i = j}

\* mutant: the loop pops before it reads the top, and loses one candidate
OfferedPositionsPopFirst(cands) ==
  [j \in 1..(Len(cands) - 1) |-> projData_[cands[j + 1]]]

\* the loop  id = TopObject()->id(); CheckAndAddToResult(data_[id]); Pop():
\* the dataset positions offered to the query, in order
OfferedPositions(cands) == [j \in 1..Len(cands) |-> projData_[cands[j]]]

\* KNNQuery::CheckAndAddToResult over the offered objects, in order
RECURSIVE KnnRerank(_, _, _)
KnnRerank(result, offered, K) ==
  IF offered = <<>> THEN result
  ELSE KnnRerank(CheckAndAdd(result, data_, K, Head(offered)), Tail(offered), K)

\* RangeQuery::CheckAndAddToResult over the offered objects: admit d <= r
RangeRerank(result, offered, r) ==
  result \cup {offered[j] : j \in {i \in 1..Len(offered) : data_[offered[i]] <= r}}

\* the tuner part of the state when no tuner is modelled
TunerIdle == tuner = [pc |-> "idle"]

\* the NN-descent part of the state when no NN-descent index is modelled
NNDesIdle == nndes = [state |-> "none"]

\* the thread part of the state when no concurrent Search is modelled
ThrIdle == thr = <<>>

\* the reader part of the state when no ReadDataset is modelled
ReaderIdle == reader = [pc |-> "idle"]

\* the oracle part of the state when no SamplingOracle is modelled
OracleIdle == oracle = [state |-> "none"]

MoreIdle == TunerIdle /\ NNDesIdle /\ ThrIdle /\ ReaderIdle /\ OracleIdle

\* the wrapper part of the state when no wrapper is modelled
WrapIdle ==
  /\ method = "none"
  /\ knn_amp_ = 0
  /\ db_scan_frac_ = <<0, 1>>
  /\ db_scan_qty_ = 0
  /\ data_ = <<>>
  /\ projData_ = <<>>
  /\ query = NoQuery
  /\ op = NoOp

\* the VP-tree part of the state when no VP-tree search is modelled
VPIdle ==
  /\ vpData = {}
  /\ vpQuery = <<0, 0>>
  /\ vpK = 0
  /\ vpStack = <<>>
  /\ vpQueue = {}
  /\ vpVisited = {}

---------------------------------------------------------------------------
(* The pruner as a state machine *)

\* PolynomialPruner::PolynomialPruner: alpha = 1, exp = 1 on both sides
PrunerInit ==
  /\ alpha_left_ = One
  /\ exp_left_ = 1
  /\ alpha_right_ = One
  /\ exp_right_ = 1
  /\ call = NoCall
  /\ VPIdle
  /\ WrapIdle
  /\ MoreIdle

\* PolynomialPruner::SetParams with explicit alphaLeft, expLeft, alphaRight,
\* expRight (alpha > 0, exponents positive integers)
SetParams ==
  \E aL \in AlphaSet, aR \in AlphaSet, eL \in 1..MaxExp, eR \in 1..MaxExp :
    /\ alpha_left_' = aL
    /\ exp_left_' = eL
    /\ alpha_right_' = aR
    /\ exp_right_' = eR
    /\ call' = NoCall
    /\ UNCHANGED <<vpVars, wrapVars, moreVars>>

\* RunExper: one pass of the loop over ce = MinExp..MaxExp, which evaluates a
\* pruner with expLeft = expRight = ce and some positive stretch coefficients
TuneExponent ==
  \E MinExp \in 0..MaxExp, MaxExpArg \in 0..MaxExp :
    /\ ExpRangeAdmitted(MinExp, MaxExpArg)
    /\ \E ce \in MinExp..MaxExpArg, aL \in AlphaSet, aR \in AlphaSet :
         /\ alpha_left_' = aL
         /\ exp_left_' = ce
         /\ alpha_right_' = aR
         /\ exp_right_' = ce
         /\ call' = NoCall
         /\ UNCHANGED <<vpVars, wrapVars, moreVars>>

\* one call of PolynomialPruner::Classify on the current pruner
DoClassify ==
  \E dq \in 0..MaxDistVal, R \in 0..MaxRadius, M \in 0..MaxDistVal :
    /\ call' = [kind |-> "classify", dq |-> dq, R |-> R, M |-> M,
                dec |-> Classify(alpha_left_, exp_left_, alpha_right_, exp_right_,
                                 dq, R, M)]
    /\ UNCHANGED prunerVars
    /\ UNCHANGED <<vpVars, wrapVars, moreVars>>

PrunerNext ==
  \/ SetParams
  \/ TuneExponent
  \/ DoClassify

SpecPruner == PrunerInit /\ [][PrunerNext]_vars

---------------------------------------------------------------------------
(* The VP-tree search as a state machine.  The tree is revealed node by     *)
(* node as the descent enters it: any pivot, any median and any partition  *)
(* that satisfies the partition invariant.                                 *)

VPInit ==
  /\ alpha_left_ \in {One, <<2, 1>>}
  /\ alpha_right_ = alpha_left_
  /\ exp_left_ = 1
  /\ exp_right_ = 1
  /\ call = NoCall
  /\ vpData \in {D \in SUBSET Points : Cardinality(D) \in 1..MaxN}
  /\ vpQuery \in Points
  /\ vpK \in 1..MaxK
  /\ vpStack = <<vpData>>
  /\ vpQueue = {}
  /\ vpVisited = {}
  /\ WrapIdle
  /\ MoreIdle

\* the descent enters a leaf
VPVisitLeaf ==
  /\ vpStack # <<>>
  /\ Cardinality(Head(vpStack)) <= BucketSize
  /\ vpQueue' = ScanBucket(vpQueue, DistTo(vpQuery), vpK, Head(vpStack))
  /\ vpVisited' = vpVisited \cup Head(vpStack)
  /\ vpStack' = Tail(vpStack)
  /\ UNCHANGED <<vpData, vpQuery, vpK, prunerVars, call, wrapVars, moreVars>>

\* the descent enters an internal node with pivot p, median M, children L, R
VPVisitInternal ==
  /\ vpStack # <<>>
  /\ Cardinality(Head(vpStack)) > BucketSize
  /\ \E p \in Head(vpStack), M \in 0..MaxGridDist :
       \E L \in SUBSET (Head(vpStack) \ {p}) :
         LET R   == (Head(vpStack) \ {p}) \ L
             dq  == Dist(vpQuery, p)
             q1  == CheckAndAdd(vpQueue, DistTo(vpQuery), vpK, p)
             dec == Classify(alpha_left_, exp_left_, alpha_right_, exp_right_,
                             dq, QueueMaxDist(q1, DistTo(vpQuery), vpK), M)
         IN  /\ PartitionOK(p, M, L, R)
             /\ vpQueue' = q1
             /\ vpVisited' = vpVisited \cup {p}
             /\ vpStack' = ChildrenToVisit(dec, dq, M, L, R) \o Tail(vpStack)
  /\ UNCHANGED <<vpData, vpQuery, vpK, prunerVars, call, wrapVars, moreVars>>

VPNext ==
  \/ VPVisitLeaf
  \/ VPVisitInternal

SpecVPTree == VPInit /\ [][VPNext]_vars

\* the search has returned
VPDone == vpData # {} /\ vpStack = <<>>

\* Q holds exactly the K nearest neighbours of the query
IsExactKNN(Q) ==
  /\ Q \subseteq vpData
  /\ Cardinality(Q) = IF vpK < Cardinality(vpData) THEN vpK ELSE Cardinality(vpData)
  /\ \A x \in Q, y \in vpData \ Q : Dist(vpQuery, x) <= Dist(vpQuery, y)

IdentityPruner ==
  alpha_left_ = One /\ alpha_right_ = One /\ exp_left_ = 1 /\ exp_right_ = 1

---------------------------------------------------------------------------
(* The surrogate wrappers as a state machine: an index is constructed over  *)
(* the dataset, its query-time parameters are set, and the caller creates  *)
(* a query, runs Search on it and disposes of it.                          *)

\* the dataset used when the configuration of the wrapper is explored
SampleData == [i \in Ids |-> (2 * i + 1) % (MaxOrigDist + 1)]

WrapInit ==
  /\ alpha_left_ = One
  /\ exp_left_ = 1
  /\ alpha_right_ = One
  /\ exp_right_ = 1
  /\ call = NoCall
  /\ VPIdle
  /\ MoreIdle
  /\ method = "none"
  /\ knn_amp_ = 0
  /\ db_scan_frac_ = <<0, 1>>
  /\ db_scan_qty_ = 0
  /\ data_ = SampleData
  /\ projData_ = <<>>
  /\ query = NoQuery
  /\ op = NoOp

\* new ProjectionVPTree(space, data, AllParams)
ProjConstruct ==
  /\ method = "none"
  /\ \E pmgr \in ParamSets :
       LET r == ProjCtor(pmgr)
       IN  /\ op' = [name |-> "construct", err |-> r.threw, pmgr |-> pmgr]
           /\ IF r.threw
              THEN UNCHANGED <<method, knn_amp_, db_scan_frac_, projData_,
                               alpha_left_, alpha_right_>>
              ELSE /\ method' = METH_PROJ_VPTREE
                   /\ knn_amp_' = r.knn
                   /\ db_scan_frac_' = r.frac
                   /\ projData_' = r.projData
                   /\ alpha_left_' = r.aL
                   /\ alpha_right_' = r.aR
  /\ UNCHANGED <<db_scan_qty_, data_, query, exp_left_, exp_right_, call, vpVars, moreVars>>

\* new PermBinVPTree(space, data, AllParams); knnAmp is no parameter of it
PermBinConstruct ==
  /\ method = "none"
  /\ \E pmgr \in ParamSets :
       LET r == PermBinCtor(pmgr)
       IN  /\ ~hasParam(pmgr, "knnAmp")
           /\ op' = [name |-> "construct", err |-> r.threw, pmgr |-> pmgr]
           /\ IF r.threw
              THEN UNCHANGED <<method, db_scan_qty_, projData_,
                               alpha_left_, alpha_right_>>
              ELSE /\ method' = METH_PERM_BIN_VPTREE
                   /\ db_scan_qty_' = r.qty
                   /\ projData_' = r.projData
                   /\ alpha_left_' = r.aL
                   /\ alpha_right_' = r.aR
  /\ UNCHANGED <<knn_amp_, db_scan_frac_, data_, query, exp_left_, exp_right_,
                 call, vpVars, moreVars>>

\* ProjectionVPTree::SetQueryTimeParams(params) on the built index
ProjSetQueryTimeParams ==
  /\ method = METH_PROJ_VPTREE
  /\ query = NoQuery
  /\ \E pmgr \in ParamSets :
       LET r == SetQueryTimeParamsInternal(pmgr,
                  [built |-> TRUE, knn |-> knn_amp_, frac |-> db_scan_frac_,
                   aL |-> alpha_left_, aR |-> alpha_right_])
       IN  /\ op' = [name |-> "setparams", err |-> r.threw, pmgr |-> pmgr]
           /\ knn_amp_' = r.knn
           /\ db_scan_frac_' = r.frac
           /\ alpha_left_' = r.aL
           /\ alpha_right_' = r.aR
  /\ UNCHANGED <<method, db_scan_qty_, data_, projData_, query,
                 exp_left_, exp_right_, call, vpVars, moreVars>>

\* the caller creates a KNNQuery with K = k
NewKNNQuery ==
  /\ method # "none"
  /\ query = NoQuery
  /\ \E k \in 0..MaxK :
       query' = [kind |-> "knn", K |-> k, radius |-> 0, result |-> {},
                 state |-> "new"]
  /\ op' = NoOp
  /\ UNCHANGED <<method, knn_amp_, db_scan_frac_, db_scan_qty_, data_, projData_,
                 prunerVars, call, vpVars, moreVars>>

\* the caller creates a RangeQuery with radius r
NewRangeQuery ==
  /\ method # "none"
  /\ query = NoQuery
  /\ \E r \in 0..MaxOrigDist :
       query' = [kind |-> "range", K |-> 0, radius |-> r, result |-> {},
                 state |-> "new"]
  /\ op' = NoOp
  /\ UNCHANGED <<method, knn_amp_, db_scan_frac_, db_scan_qty_, data_, projData_,
                 prunerVars, call, vpVars, moreVars>>

\* a Search that threw before projecting the query
SearchFailed(name, qty) ==
  /\ query' = [query EXCEPT !.state = "failed"]
  /\ op' = [name |-> name, err |-> TRUE, qty |-> qty, projected |-> FALSE,
            searched |-> FALSE, cands |-> <<>>, offered |-> <<>>]

\* a Search that projected the query, ran the surrogate search for qty
\* neighbours and offered the candidates to the query
SearchRan(name, qty) ==
  \E cands \in SurrogateSearch(qty) :
    LET offered == OfferedPositions(cands)
    IN  /\ query' = [query EXCEPT
                       !.state = "done",
                       !.result = IF query.kind = "knn"
                                  THEN KnnRerank(query.result, offered, query.K)
                                  ELSE RangeRerank(query.result, offered, query.radius)]
        /\ op' = [name |-> name, err |-> FALSE, qty |-> qty, projected |-> TRUE,
                  searched |-> TRUE, cands |-> cands, offered |-> offered]

\* mutant: Search(KNNQuery*) without the check of db_scan_qty
ProjSearchKNNNoCheck ==
  /\ method = METH_PROJ_VPTREE
  /\ query.kind = "knn"
  /\ query.state = "new"
  /\ \E db_scan_qty \in computeDbScan(query.K) : SearchRan("knn", db_scan_qty)
  /\ UNCHANGED <<method, knn_amp_, db_scan_frac_, db_scan_qty_, data_, projData_,
                 prunerVars, call, vpVars, moreVars>>

\* ProjectionVPTree::Search(KNNQuery*)
ProjSearchKNN ==
  /\ method = METH_PROJ_VPTREE
  /\ query.kind = "knn"
  /\ query.state = "new"
  /\ \E db_scan_qty \in computeDbScan(query.K) :
       IF db_scan_qty = 0
       THEN SearchFailed("knn", db_scan_qty)
       ELSE SearchRan("knn", db_scan_qty)
  /\ UNCHANGED <<method, knn_amp_, db_scan_frac_, db_scan_qty_, data_, projData_,
                 prunerVars, call, vpVars, moreVars>>

\* ProjectionVPTree::Search(RangeQuery*)
ProjSearchRange ==
  /\ method = METH_PROJ_VPTREE
  /\ query.kind = "range"
  /\ query.state = "new"
  /\ IF db_scan_frac_[1] < 0 \/ db_scan_frac_[1] > db_scan_frac_[2]
     THEN SearchFailed("range", 0)
     ELSE \E db_scan_qty \in computeDbScan(0) :
            IF db_scan_qty = 0
            THEN SearchFailed("range", db_scan_qty)
            ELSE SearchRan("range", db_scan_qty)
  /\ UNCHANGED <<method, knn_amp_, db_scan_frac_, db_scan_qty_, data_, projData_,
                 prunerVars, call, vpVars, moreVars>>

\* PermBinVPTree::Search(KNNQuery*)
PermBinSearchKNN ==
  /\ method = METH_PERM_BIN_VPTREE
  /\ query.kind = "knn"
  /\ query.state = "new"
  /\ SearchRan("knn", db_scan_qty_)
  /\ UNCHANGED <<method, knn_amp_, db_scan_frac_, db_scan_qty_, data_, projData_,
                 prunerVars, call, vpVars, moreVars>>

\* PermBinVPTree::Search(RangeQuery*)
PermBinSearchRange ==
  /\ method = METH_PERM_BIN_VPTREE
  /\ query.kind = "range"
  /\ query.state = "new"
  /\ SearchRan("range", db_scan_qty_)
  /\ UNCHANGED <<method, knn_amp_, db_scan_frac_, db_scan_qty_, data_, projData_,
                 prunerVars, call, vpVars, moreVars>>

\* the caller reads the result and disposes of the query
DeleteQuery ==
  /\ query.kind # "none"
  /\ query.state # "new"
  /\ query' = NoQuery
  /\ op' = NoOp
  /\ UNCHANGED <<method, knn_amp_, db_scan_frac_, db_scan_qty_, data_, projData_,
                 prunerVars, call, vpVars, moreVars>>

QueryNext ==
  \/ NewKNNQuery
  \/ NewRangeQuery
  \/ ProjSearchKNN
  \/ ProjSearchRange
  \/ PermBinSearchKNN
  \/ PermBinSearchRange
  \/ DeleteQuery

WrapNext ==
  \/ ProjConstruct
  \/ PermBinConstruct
  \/ ProjSetQueryTimeParams
  \/ QueryNext

SpecWrap == WrapInit /\ [][WrapNext]_vars

\* a wrapper built over any dataset, with a configuration its constructor
\* can produce
RerankInit ==
  /\ exp_left_ = 1
  /\ exp_right_ = 1
  /\ call = NoCall
  /\ VPIdle
  /\ MoreIdle
  /\ data_ \in [Ids -> 0..MaxOrigDist]
  /\ query = NoQuery
  /\ op = NoOp
  /\ \E pmgr \in ParamSets :
       \/ LET r == ProjCtor(pmgr)
          IN  /\ ~r.threw
              /\ method = METH_PROJ_VPTREE
              /\ knn_amp_ = r.knn
              /\ db_scan_frac_ = r.frac
              /\ db_scan_qty_ = 0
              /\ projData_ = r.projData
              /\ alpha_left_ = r.aL
              /\ alpha_right_ = r.aR
       \/ LET r == PermBinCtor(pmgr)
          IN  /\ ~hasParam(pmgr, "knnAmp")
              /\ ~r.threw
              /\ method = METH_PERM_BIN_VPTREE
              /\ knn_amp_ = 0
              /\ db_scan_frac_ = <<0, 1>>
              /\ db_scan_qty_ = r.qty
              /\ projData_ = r.projData
              /\ alpha_left_ = r.aL
              /\ alpha_right_ = r.aR

SpecRerank == RerankInit /\ [][QueryNext]_vars

---------------------------------------------------------------------------
(* Claims about PolynomialPruner::Classify (checked under SpecPruner) *)

\* the classification rule as the specification states it
PolynomialRule(aL, eL, aR, eR, dq, Rmax, M) ==
  IF dq <= M /\ Rmax * aL[2] < aL[1] * ((M - dq) ^ eL) THEN kVisitLeft
  ELSE IF dq >= M /\ Rmax * aR[2] < aR[1] * ((dq - M) ^ eR) THEN kVisitRight
  ELSE kVisitBoth

C2_EqualMedianVisitsBoth ==
  (call.kind = "classify" /\ call.dq = call.M) => call.dec = kVisitBoth

\* C3: Classify is monotone in Rmax: once Classify(dq, R1, M) is Both, a
\* later call on the same pruner with the same dq and M and R2 >= R1 is Both.
C3_MonotoneInRmax ==
  [][(/\ call.kind = "classify"
      /\ call'.kind = "classify"
      /\ call.dec = kVisitBoth
      /\ call'.dq = call.dq
      /\ call'.M = call.M
      /\ call'.R >= call.R)
     => call'.dec = kVisitBoth]_vars

\* a Both decision at a radius below which the same query is pruned
C3_Witness ==
  /\ call.kind = "classify"
  /\ call.dec = kVisitBoth
  /\ call.R > 0
  /\ call.R < MaxRadius
  /\ Classify(alpha_left_, exp_left_, alpha_right_, exp_right_,
              call.dq, call.R - 1, call.M) = kVisitLeft

---------------------------------------------------------------------------
(* Claims about the VP-tree search (checked under SpecVPTree) *)

\* C4: with the identity pruner and a metric distance, the k-NN search that
\* descends according to Classify returns exactly the k nearest neighbours,
\* for every tree with left <= M <= right, every query and every k.
C4_IdentityPrunerExact ==
  (VPDone /\ IdentityPruner) => IsExactKNN(vpQueue)

\* a finished search that pruned part of a tree of MaxN objects
C4_Witness ==
  /\ VPDone
  /\ IdentityPruner
  /\ Cardinality(vpData) = MaxN
  /\ vpVisited # vpData
  /\ Cardinality(vpQueue) = vpK

---------------------------------------------------------------------------
(* Claims about the configuration of ProjectionVPTree (checked under       *)
(* SpecWrap)                                                               *)

\* the set of the candidates a finished Search got from the surrogate search
CandidateSet == {op.cands[j] : j \in 1..Len(op.cands)}

\* floor(frac * n) for frac >= 0
FloorTimes(frac, n) == (frac[1] * n) \div frac[2]

\* ceiling(frac * n) for frac >= 0
CeilTimes(frac, n) == (frac[1] * n + frac[2] - 1) \div frac[2]

\* C5 as stated: a k-NN query requests knnAmp*k candidates when knnAmp > 0,
\* and otherwise the ceiling of dbScanFrac*N.
C5_CandidateCountAsStated ==
  (method = METH_PROJ_VPTREE /\ op.name = "knn" /\ db_scan_frac_[1] >= 0)
    => op.qty = IF knn_amp_ > 0 THEN knn_amp_ * query.K
                ELSE CeilTimes(db_scan_frac_, DataSize)

\* C5 as amended: a k-NN query requests min(knnAmp*k, N) candidates when
\* knnAmp > 0, and otherwise dbScanFrac*N truncated to an integer (the floor,
\* for dbScanFrac >= 0; 0 when -1 < dbScanFrac*N < 0).
C5_CandidateCount ==
  (method = METH_PROJ_VPTREE /\ op.name = "knn")
    => IF knn_amp_ > 0
       THEN op.qty = Min(knn_amp_ * query.K, DataSize)
       ELSE /\ db_scan_frac_[1] >= 0
               => op.qty = FloorTimes(db_scan_frac_, DataSize)
            /\ (db_scan_frac_[1] < 0 /\ -db_scan_frac_[1] * DataSize < db_scan_frac_[2])
               => op.qty = 0

\* the cap at N and the truncation both take effect
C5_Witness ==
  /\ method = METH_PROJ_VPTREE
  /\ op.name = "knn"
  /\ ~op.err
  /\ \/ knn_amp_ > 0 /\ knn_amp_ * query.K > DataSize /\ op.qty = DataSize
     \/ /\ knn_amp_ = 0
        /\ db_scan_frac_[1] > 0
        /\ op.qty < CeilTimes(db_scan_frac_, DataSize)

\* C6: a k-NN query whose candidate count is 0 fails with an error before any
\* projection or surrogate search, and adds nothing to the query result.
C6_ZeroCandidatesFails ==
  /\ [](op.name = "knn" /\ op.qty = 0
         => /\ op.err
            /\ ~op.projected
            /\ ~op.searched
            /\ query.state = "failed"
            /\ query.result = {})
  /\ [][(op'.name = "knn" /\ op'.qty = 0 /\ op.name = "none")
         => query'.result = query.result]_vars

\* the count is 0 although dbScanFrac > 0 is set
C6_Witness ==
  /\ op.name = "knn"
  /\ op.qty = 0
  /\ op.err
  /\ knn_amp_ = 0
  /\ db_scan_frac_[1] > 0
  /\ query.K > 0

\* C7: a call that gives both dbScanFrac and knnAmp is rejected and changes
\* no state: knn_amp_, db_scan_frac_ and the query-time parameters of the
\* underlying VP-tree keep their values.
C7_RejectedCallChangesNothing ==
  [][(/\ op'.name \in {"construct", "setparams"}
      /\ op' # op
      /\ hasParam(op'.pmgr, "dbScanFrac")
      /\ hasParam(op'.pmgr, "knnAmp"))
     => /\ op'.err
        /\ knn_amp_' = knn_amp_
        /\ db_scan_frac_' = db_scan_frac_
        /\ alpha_left_' = alpha_left_
        /\ alpha_right_' = alpha_right_]_vars

\* C8: a range query needs dbScanFrac > 0 and does not use knnAmp: the count
\* is floor(dbScanFrac*N) whatever knn_amp_ is, and when that is 0 (as when
\* only knnAmp is configured) the query fails and adds nothing to the result.
C8_RangeNeedsDbScanFrac ==
  (method = METH_PROJ_VPTREE /\ op.name = "range")
    => LET inRange == db_scan_frac_[1] >= 0 /\ db_scan_frac_[1] <= db_scan_frac_[2]
       IN  /\ inRange => op.qty = FloorTimes(db_scan_frac_, DataSize)
           /\ op.err <=> (~inRange \/ FloorTimes(db_scan_frac_, DataSize) = 0)
           /\ ~op.err => db_scan_frac_[1] > 0
           /\ knn_amp_ > 0 => op.err
           /\ op.err => query.result = {} /\ ~op.searched

\* a range query on an index configured with knnAmp only
C8_Witness ==
  /\ method = METH_PROJ_VPTREE
  /\ op.name = "range"
  /\ knn_amp_ > 0
  /\ op.err
  /\ query.result = {}

---------------------------------------------------------------------------
(* Claims about the re-ranking of the surrogate wrappers (checked under     *)
(* SpecRerank)                                                             *)

\* C9: the k-NN answer of a wrapper is exactly the k candidates of smallest
\* original-space distance: every candidate is mapped to the dataset object
\* whose projection it is and offered exactly once, and nothing outside the
\* candidate set is returned.
C9_KnnAnswerIsBestOfCandidates ==
  (query.kind = "knn" /\ query.state = "done")
    => /\ op.offered = op.cands
       /\ query.result \subseteq CandidateSet
       /\ Cardinality(query.result) = Min(query.K, Cardinality(CandidateSet))
       /\ \A x \in query.result, y \in CandidateSet \ query.result :
            data_[x] <= data_[y]

\* a k-NN answer that drops a candidate and misses a closer non-candidate
C9_Witness ==
  /\ query.kind = "knn"
  /\ query.state = "done"
  /\ query.K > 0
  /\ Cardinality(CandidateSet) > query.K
  /\ \E x \in query.result, y \in DOMAIN data_ \ CandidateSet : data_[y] < data_[x]
  /\ \E x \in query.result, y \in CandidateSet \ query.result : data_[x] < data_[y]

\* C10: the range answer of a wrapper with radius r is exactly the set of the
\* candidates whose original-space distance is <= r.
C10_RangeAnswerIsCandidatesWithinR ==
  (query.kind = "range" /\ query.state = "done")
    => query.result = {c \in CandidateSet : data_[c] <= query.radius}

\* a range answer that keeps one candidate, drops another and misses an
\* object within r that is no candidate
C10_Witness ==
  /\ query.kind = "range"
  /\ query.state = "done"
  /\ query.result # {}
  /\ query.result # CandidateSet
  /\ \E y \in DOMAIN data_ \ CandidateSet : data_[y] <= query.radius

---------------------------------------------------------------------------
(* Claims about the query-time and build parameters of the wrappers        *)

\* the parameter is absent from pmgr or has the value cur
AbsentOrCurrent(pmgr, name, cur) == ~hasParam(pmgr, name) \/ pmgr[name] = <<cur>>

\* C11: SetQueryTimeParams on a ProjectionVPTree with knnAmp and dbScanFrac
\* both set to their current values is a no-op: the call succeeds and
\* knn_amp_ and db_scan_frac_ (and so the candidate counts of later queries)
\* are unchanged.
C11_SetToCurrentIsNoOp ==
  [][(/\ op'.name = "setparams"
      /\ op' # op
      /\ op'.pmgr.dbScanFrac = <<db_scan_frac_>>
      /\ op'.pmgr.knnAmp = <<knn_amp_>>
      /\ AbsentOrCurrent(op'.pmgr, "alphaLeft", alpha_left_)
      /\ AbsentOrCurrent(op'.pmgr, "alphaRight", alpha_right_))
     => /\ ~op'.err
        /\ knn_amp_' = knn_amp_
        /\ db_scan_frac_' = db_scan_frac_]_vars

\* C12: the alphaLeft and alphaRight of the build parameters of a wrapper are
\* the stretch coefficients of the pruner of its underlying VP-tree; 1.0 is
\* used only when they are absent.
C12_BuildAlphaReachesPruner ==
  (op.name = "construct" /\ ~op.err)
    => /\ alpha_left_ = GetParamOptional(op.pmgr, "alphaLeft", One)
       /\ alpha_right_ = GetParamOptional(op.pmgr, "alphaRight", One)

---------------------------------------------------------------------------
(* The tuner: RunExper of tune_vptree.cc as a state machine.  Recall is in  *)
(* units of 1/MaxRecall; one step of TunerRun is one pass of the loop body, *)
(* a call of GetOptimalAlphas and the update of the tracked values.  The   *)
(* fields nruns, evaluated, start, lastRun, metBest and adopted record the *)
(* history: the number of runs, the exponent pairs run, the starting point *)
(* and the position of the last run, the best improvement of a run that    *)
(* met the recall, and the run whose values were last taken over.  maxSeen *)
(* is the largest improvement any run returned so far and firstMax the     *)
(* number of the earliest run that returned it.                            *)

\* the points (alphaLeft, alphaRight) a grid search may start from or return
TunedPoints == {<<<<1, 2>>, <<2, 1>>>>, <<<<2, 1>>, <<3, 1>>>>}

\* what one call of GetOptimalAlphas may return: the point it picked (the
\* best point that meets the recall or else the point of highest recall),
\* with the recall, the improvement and the time measured for it (the time
\* is the smaller the larger the improvement)
GridResults ==
  {[recall |-> r, impr |-> i, time |-> MaxImpr + 1 - i,
    alpha_left |-> p[1], alpha_right |-> p[2]] :
     r \in 0..MaxRecall, i \in 1..MaxImpr, p \in TunedPoints}

\* the parameter string  alphaLeft=..,alphaRight=..,expLeft=..,expRight=..
bestParams(t) ==
  [alphaLeft |-> t.alpha_left, alphaRight |-> t.alpha_right,
   expLeft |-> t.exp_left, expRight |-> t.exp_right]

\* RunExper is called with these arguments; its locals as at lines 194-195
TunerStart(MinExp, MaxExpArg, AddRestartQty, desiredRecall, ResFile) ==
  [pc |-> "start", MinExp |-> MinExp, MaxExp |-> MaxExpArg,
   AddRestartQty |-> AddRestartQty, desiredRecall |-> desiredRecall,
   ResFile |-> ResFile, ce |-> MinExp, k |-> 0,
   recall |-> 0, time_best |-> 0, impr_best |-> -1,
   alpha_left |-> Zero, alpha_right |-> Zero, exp_left |-> 0, exp_right |-> 0,
   nruns |-> 0, evaluated |-> {}, start |-> <<>>, lastRun |-> <<>>,
   metBest |-> 0, adopted |-> <<>>, maxSeen |-> 0, firstMax |-> 0,
   out |-> <<>>, fatal |-> <<>>]

TunerInit ==
  /\ \E MinExp \in 0..MaxExp, MaxExpArg \in 0..MaxExp,
        AddRestartQty \in 0..MaxRestart, desiredRecall \in 1..MaxRecall,
        ResFile \in BOOLEAN :
       tuner = TunerStart(MinExp, MaxExpArg, AddRestartQty, desiredRecall, ResFile)
  /\ alpha_left_ = One
  /\ exp_left_ = 1
  /\ alpha_right_ = One
  /\ exp_right_ = 1
  /\ call = NoCall
  /\ VPIdle
  /\ WrapIdle
  /\ NNDesIdle
  /\ ThrIdle
  /\ ReaderIdle
  /\ OracleIdle

\* lines 152-153: the checks of the exponent range; a throw is caught at
\* line 265 and logged as fatal
TunerCheck ==
  /\ tuner.pc = "start"
  /\ tuner' = IF ExpRangeAdmitted(tuner.MinExp, tuner.MaxExp)
              THEN [tuner EXCEPT !.pc = "loop"]
              ELSE [tuner EXCEPT !.pc = "rejected",
                                 !.fatal = <<[text |-> "Exception"]>>]
  /\ UNCHANGED <<prunerVars, call, vpVars, wrapVars, nndes, thr, reader, oracle>>

\* mutant: a run of equal improvement replaces the tracked values
TrackBestNonStrict(t, expLeft, expRight, res) ==
  IF res.impr >= t.impr_best
  THEN [t EXCEPT !.recall = res.recall, !.time_best = res.time,
                 !.impr_best = res.impr,
                 !.alpha_left = res.alpha_left, !.alpha_right = res.alpha_right,
                 !.exp_left = expLeft, !.exp_right = expRight]
  ELSE t

\* lines 220-228: the tracked values are replaced when the run's improvement
\* is strictly better
TrackBest(t, expLeft, expRight, res) ==
  IF res.impr > t.impr_best
  THEN [t EXCEPT !.recall = res.recall, !.time_best = res.time,
                 !.impr_best = res.impr,
                 !.alpha_left = res.alpha_left, !.alpha_right = res.alpha_right,
                 !.exp_left = expLeft, !.exp_right = expRight]
  ELSE t

\* lines 201-208: the starting point of restart k
StartPoints(k) ==
  IF k > 0 THEN TunedPoints ELSE {<<One, One>>}

\* mutant: the loops end one restart early
LoopStepSkipLast(t) ==
  IF t.k + 1 < t.AddRestartQty
  THEN [t EXCEPT !.k = t.k + 1]
  ELSE [t EXCEPT !.k = 0, !.ce = t.ce + 1,
                 !.pc = IF t.ce + 1 <= t.MaxExp THEN "loop" ELSE "report"]

\* mutant: the loop over ce ends one exponent early
LoopStepStopEarly(t) ==
  IF t.k + 1 < 1 + t.AddRestartQty
  THEN [t EXCEPT !.k = t.k + 1]
  ELSE [t EXCEPT !.k = 0, !.ce = t.ce + 1,
                 !.pc = IF t.ce + 1 < t.MaxExp THEN "loop" ELSE "report"]

\* lines 197-198: the step of the loops over ce and k
LoopStep(t) ==
  IF t.k + 1 < 1 + t.AddRestartQty
  THEN [t EXCEPT !.k = t.k + 1]
  ELSE [t EXCEPT !.k = 0, !.ce = t.ce + 1,
                 !.pc = IF t.ce + 1 <= t.MaxExp THEN "loop" ELSE "report"]

\* lines 198-229: one pass of the loop body
TunerRun ==
  /\ tuner.pc = "loop"
  /\ \E start \in StartPoints(tuner.k), res \in GridResults :
       LET expLeft == tuner.ce
           expRight == tuner.ce
           t1 == TrackBest(tuner, expLeft, expRight, res)
           t2 == [t1 EXCEPT
                    !.nruns = tuner.nruns + 1,
                    !.evaluated = tuner.evaluated \cup {<<expLeft, expRight>>},
                    !.start = <<start>>,
                    !.lastRun = <<[ce |-> tuner.ce, k |-> tuner.k]>>,
                    !.adopted = IF t1.impr_best # tuner.impr_best
                                THEN <<[res |-> res, expLeft |-> expLeft,
                                        expRight |-> expRight,
                                        run |-> tuner.nruns + 1]>>
                                ELSE tuner.adopted,
                    !.maxSeen = Max(tuner.maxSeen, res.impr),
                    !.firstMax = IF res.impr > tuner.maxSeen
                                 THEN tuner.nruns + 1
                                 ELSE tuner.firstMax,
                    !.metBest = IF res.recall >= tuner.desiredRecall
                                THEN Max(tuner.metBest, res.impr)
                                ELSE tuner.metBest]
       IN  tuner' = LoopStep(t2)
  /\ UNCHANGED <<prunerVars, call, vpVars, wrapVars, nndes, thr, reader, oracle>>

\* mutant: the report without the test of the recall
ReportOutcomeNoTest(t) ==
  [t EXCEPT !.pc = "done",
            !.out = IF t.ResFile THEN <<bestParams(t)>> ELSE <<>>]

\* lines 231-263: the fatal message when the tracked recall is too small,
\* else the parameter string written to ResFile
ReportOutcome(t) ==
  IF t.recall < t.desiredRecall
  THEN [t EXCEPT !.pc = "failed",
                 !.fatal = <<[text |-> "Failed to get the desired recall!"]>>]
  ELSE [t EXCEPT !.pc = "done",
                 !.out = IF t.ResFile THEN <<bestParams(t)>> ELSE <<>>]

TunerReport ==
  /\ tuner.pc = "report"
  /\ tuner' = ReportOutcome(tuner)
  /\ UNCHANGED <<prunerVars, call, vpVars, wrapVars, nndes, thr, reader, oracle>>

TunerNext ==
  \/ TunerCheck
  \/ TunerRun
  \/ TunerReport

SpecTuner == TunerInit /\ [][TunerNext]_vars

---------------------------------------------------------------------------
(* Claims about the tuner (checked under SpecTuner)                        *)

\* the loops of RunExper have ended
TunerLoopDone == tuner.pc \in {"report", "done", "failed"}

\* C13: after all runs the configuration reported is the one of the best
\* improvement among the runs whose recall is >= desiredRecall; a run that
\* misses the recall is never preferred over one that meets it.
C13_BestAmongRunsMeetingRecall ==
  (TunerLoopDone /\ tuner.metBest > 0)
    => /\ tuner.recall >= tuner.desiredRecall
       /\ tuner.impr_best = tuner.metBest

\* C14: when no run meets desiredRecall the tuner reports a failure that
\* carries the best observed parameters.
C14_FailureCarriesBestParams ==
  (tuner.pc = "failed" /\ tuner.metBest = 0)
    => /\ tuner.fatal # <<>>
       /\ \/ "params" \in DOMAIN tuner.fatal[1]
          \/ tuner.out = <<bestParams(tuner)>>

\* C15: a parameter string is written only if the recall measured for those
\* parameters is >= desiredRecall; when the selected configuration's recall
\* is below desiredRecall, failure is reported and nothing is written.
C15_WrittenOnlyIfRecallMet ==
  /\ tuner.out # <<>>
       => /\ tuner.adopted # <<>>
          /\ tuner.out[1] = [alphaLeft |-> tuner.adopted[1].res.alpha_left,
                             alphaRight |-> tuner.adopted[1].res.alpha_right,
                             expLeft |-> tuner.adopted[1].expLeft,
                             expRight |-> tuner.adopted[1].expRight]
          /\ tuner.adopted[1].res.recall >= tuner.desiredRecall
  /\ (tuner.pc \in {"done", "failed"} /\ tuner.recall < tuner.desiredRecall)
       => /\ tuner.pc = "failed"
          /\ tuner.fatal # <<>>
          /\ tuner.out = <<>>

\* a string is written after more than one run, the recall just at the target
C15_Witness ==
  /\ tuner.pc = "done"
  /\ tuner.out # <<>>
  /\ tuner.nruns > 1
  /\ tuner.recall = tuner.desiredRecall

\* C16 as stated: the grid search is run for every exponent pair (eL, eR) of
\* the range, pairs with eL # eR included.
C16_EveryExponentPair ==
  TunerLoopDone
    => tuner.evaluated = (tuner.MinExp..tuner.MaxExp) \X (tuner.MinExp..tuner.MaxExp)

\* C16 as amended: the grid search is run for every exponent e of the range
\* with expLeft = expRight = e, and for no pair with expLeft # expRight.
C16_EveryExponentOnDiagonal ==
  TunerLoopDone
    => tuner.evaluated = {<<e, e>> : e \in tuner.MinExp..tuner.MaxExp}

\* a range of more than one exponent has been run
C16_Witness ==
  /\ tuner.pc = "done"
  /\ tuner.MinExp < tuner.MaxExp
  /\ Cardinality(tuner.evaluated) > 1

\* C17: each exponent gets exactly 1 + addRestartQty runs, in order; the
\* first starts from (1, 1), the later ones from a drawn strictly positive
\* pair; the total is (maxExp - minExp + 1) * (1 + addRestartQty).
C17_RestartsPerExponent ==
  /\ tuner.pc = "loop"
       => tuner.nruns = (tuner.ce - tuner.MinExp) * (1 + tuner.AddRestartQty) + tuner.k
  /\ TunerLoopDone
       => tuner.nruns = (tuner.MaxExp - tuner.MinExp + 1) * (1 + tuner.AddRestartQty)
  /\ (tuner.pc # "idle" /\ tuner.lastRun # <<>>)
       => LET r == tuner.lastRun[1]
              st == tuner.start[1]
          IN  /\ r.k <= tuner.AddRestartQty
              /\ r.k = 0 => st = <<One, One>>
              /\ r.k > 0 => st[1][1] > 0 /\ st[2][1] > 0

\* all runs done with restarts and more than one exponent
C17_Witness ==
  /\ tuner.pc = "done"
  /\ tuner.AddRestartQty > 0
  /\ tuner.MinExp < tuner.MaxExp
  /\ tuner.lastRun[1].k = tuner.AddRestartQty
  /\ tuner.start[1] # <<One, One>>

\* C18: with minExp = 0 tuning fails before any grid search runs, so every
\* exponent evaluated or reported is >= 1.
C18_ZeroMinExpRejected ==
  /\ (tuner.pc \notin {"idle", "start"} /\ tuner.MinExp = 0)
       => tuner.pc = "rejected" /\ tuner.nruns = 0
  /\ tuner.pc # "idle"
       => /\ \A p \in tuner.evaluated : p[1] >= 1 /\ p[2] >= 1
          /\ tuner.out # <<>> => tuner.out[1].expLeft >= 1 /\ tuner.out[1].expRight >= 1

---------------------------------------------------------------------------
(* The NN-descent index: NNDescentMethodOld of nndes_old.cc, its members   *)
(* that the query-time parameters set, and the caller's query.             *)

\* the defaults of the constructor's initialiser list
NNDefault == 20
InitSearchAttemptsDefault == 10

NNDesParamSets ==
  [NN : Given(1..MaxNN) \cup {Absent},
   initSearchAttempts : Given(0..MaxAttempts) \cup {Absent},
   searchNN : Given(1..MaxNN) \cup {Absent},
   greedy : Given(BOOLEAN) \cup {Absent}]

\* NNDescentMethodOld::SetQueryTimeParamsInternal on the members in ix
NNDesSetQueryTimeParamsInternal(pmgr, ix) ==
  [ix EXCEPT
     !.initSearchAttempts_ =
        GetParamOptional(pmgr, "initSearchAttempts", ix.initSearchAttempts_),
     !.searchNN_ = GetParamOptional(pmgr, "searchNN", ix.searchNN_),
     !.greedy_ = GetParamOptional(pmgr, "greedy", ix.greedy_)]

\* NNDescentMethodOld::NNDescentMethodOld with parameters pmgr
NNDesCtor(pmgr) ==
  LET NN == GetParamOptional(pmgr, "NN", NNDefault)
      ix == [state |-> "built", NN_ |-> NN, searchNN_ |-> NN,
             initSearchAttempts_ |-> InitSearchAttemptsDefault,
             greedy_ |-> GetParamOptional(pmgr, "greedy", FALSE),
             query |-> NoQuery, op |-> NoOp]
  IN  NNDesSetQueryTimeParamsInternal(pmgr, ix)

NNDesInit ==
  /\ nndes = [state |-> "none"]
  /\ alpha_left_ = One
  /\ exp_left_ = 1
  /\ alpha_right_ = One
  /\ exp_right_ = 1
  /\ call = NoCall
  /\ VPIdle
  /\ WrapIdle
  /\ TunerIdle
  /\ ThrIdle
  /\ ReaderIdle
  /\ OracleIdle

NNDesConstruct ==
  /\ nndes.state = "none"
  /\ \E pmgr \in NNDesParamSets : nndes' = NNDesCtor(pmgr)
  /\ UNCHANGED <<prunerVars, call, vpVars, wrapVars, tuner, thr, reader, oracle>>

\* Index::SetQueryTimeParams on the built index
NNDesSetQueryTimeParams ==
  /\ nndes.state = "built"
  /\ nndes.query = NoQuery
  /\ \E pmgr \in NNDesParamSets :
       /\ ~hasParam(pmgr, "NN")
       /\ nndes' = [NNDesSetQueryTimeParamsInternal(pmgr, nndes) EXCEPT
                      !.op = [name |-> "setparams", err |-> FALSE]]
  /\ UNCHANGED <<prunerVars, call, vpVars, wrapVars, tuner, thr, reader, oracle>>

\* the caller creates a RangeQuery with radius r
NNDesNewRangeQuery ==
  /\ nndes.state = "built"
  /\ nndes.query = NoQuery
  /\ \E r \in 0..MaxOrigDist :
       nndes' = [nndes EXCEPT
                   !.query = [kind |-> "range", K |-> 0, radius |-> r,
                              result |-> {}, state |-> "new"],
                   !.op = NoOp]
  /\ UNCHANGED <<prunerVars, call, vpVars, wrapVars, tuner, thr, reader, oracle>>

\* mutant: a range search that answers with the object at position 0
NNDesRangeOutcomeAnswers(ix) ==
  [ix EXCEPT !.query.state = "done",
             !.query.result = ix.query.result \cup {0},
             !.op = [name |-> "range", err |-> FALSE]]

\* NNDescentMethodOld::Search(RangeQuery*): throw runtime_error
NNDesRangeOutcome(ix) ==
  [ix EXCEPT !.query.state = "failed",
             !.op = [name |-> "range", err |-> TRUE]]

NNDesSearchRange ==
  /\ nndes.state = "built"
  /\ nndes.query # NoQuery
  /\ nndes.query.kind = "range"
  /\ nndes.query.state = "new"
  /\ nndes' = NNDesRangeOutcome(nndes)
  /\ UNCHANGED <<prunerVars, call, vpVars, wrapVars, tuner, thr, reader, oracle>>

\* the caller deletes its query
NNDesDeleteQuery ==
  /\ nndes.state = "built"
  /\ nndes.query # NoQuery
  /\ nndes.query.state # "new"
  /\ nndes' = [nndes EXCEPT !.query = NoQuery, !.op = NoOp]
  /\ UNCHANGED <<prunerVars, call, vpVars, wrapVars, tuner, thr, reader, oracle>>

NNDesNext ==
  \/ NNDesConstruct
  \/ NNDesSetQueryTimeParams
  \/ NNDesNewRangeQuery
  \/ NNDesSearchRange
  \/ NNDesDeleteQuery

SpecNNDes == NNDesInit /\ [][NNDesNext]_vars

\* C19: a range query on the NN-descent index always fails with an error and
\* adds nothing to the query result, whatever the index state and the
\* query-time parameters.
C19_RangeSearchUnsupported ==
  /\ []((nndes.state = "built" /\ nndes.op.name = "range")
          => /\ nndes.op.err
             /\ nndes.query.state = "failed"
             /\ nndes.query.result = {})
  /\ [][(nndes.state = "built" /\ nndes.query # NoQuery /\ nndes.query.kind = "range"
         /\ nndes'.query # NoQuery)
        => nndes'.query.result = nndes.query.result]_vars

\* a failed range query after the query-time parameters were set
C19_Witness ==
  /\ nndes.state = "built"
  /\ nndes.op.name = "range"
  /\ nndes.op.err
  /\ nndes.greedy_
  /\ nndes.initSearchAttempts_ = 0
  /\ nndes.searchNN_ # nndes.NN_

---------------------------------------------------------------------------
(* Two threads that each run one Search on the same built wrapper.  A      *)
(* thread takes three steps: it fixes the number of candidates from the    *)
(* members of the index, it runs the surrogate search into its own         *)
(* KNNQuery, and it re-ranks its own clone of the result queue.            *)

Threads == {1, 2}

\* the orders in which the surrogate search may rank the positions
SurrogateOrders ==
  {c \in [1..DataLen -> DOMAIN data_] :
     \A i, j \in 1..DataLen : c[i] = c[j] => i = j}

\* the queries a thread may pose
ThreadQueries ==
  {[kind |-> "knn", K |-> k, radius |-> 0, pc |-> "new", db_scan_qty |-> 0,
    ResQueue |-> <<>>, result |-> {}, err |-> FALSE] : k \in 0..MaxK}
  \cup
  {[kind |-> "range", K |-> 0, radius |-> r, pc |-> "new", db_scan_qty |-> 0,
    ResQueue |-> <<>>, result |-> {}, err |-> FALSE] : r \in 0..MaxOrigDist}

\* the first step of Search on query q: the possible values of db_scan_qty,
\* or the throw
ScanQtyOutcomes(q) ==
  IF method = METH_PERM_BIN_VPTREE
  THEN {[err |-> FALSE, qty |-> db_scan_qty_]}
  ELSE IF q.kind = "range" /\ (db_scan_frac_[1] < 0 \/ db_scan_frac_[1] > db_scan_frac_[2])
       THEN {[err |-> TRUE, qty |-> 0]}
       ELSE {[err |-> (n = 0), qty |-> n] :
               n \in computeDbScan(IF q.kind = "knn" THEN q.K ELSE 0)}

\* the surrogate search of a thread: the db_scan_qty best positions of sur
ThreadResQueue(q, sur) == SubSeq(sur, 1, Min(q.db_scan_qty, DataLen))

\* the loop over the clone of the result queue
ThreadRerank(q) ==
  LET offered == OfferedPositions(q.ResQueue)
  IN  IF q.kind = "knn"
      THEN KnnRerank(q.result, offered, q.K)
      ELSE RangeRerank(q.result, offered, q.radius)

\* what Search on query q returns when it runs alone
AloneOutcomes(q, sur) ==
  {IF o.err
   THEN [err |-> TRUE, result |-> {}]
   ELSE LET q1 == [q EXCEPT !.db_scan_qty = o.qty]
            q2 == [q1 EXCEPT !.ResQueue = ThreadResQueue(q1, sur)]
        IN  [err |-> FALSE, result |-> ThreadRerank(q2)] :
     o \in ScanQtyOutcomes(q)}

\* mutant: db_scan_qty is kept in a member of the index, which both threads use
StoreScanQtyInMember(qs, t, qty) ==
  [u \in DOMAIN qs |->
     IF u = t THEN [qs[u] EXCEPT !.db_scan_qty = qty, !.pc = "computed"]
     ELSE [qs[u] EXCEPT !.db_scan_qty = qty]]

\* db_scan_qty is a local of Search
StoreScanQty(qs, t, qty) ==
  [qs EXCEPT ![t].db_scan_qty = qty, ![t].pc = "computed"]

ConcInit ==
  /\ alpha_left_ = One
  /\ exp_left_ = 1
  /\ alpha_right_ = One
  /\ exp_right_ = 1
  /\ call = NoCall
  /\ VPIdle
  /\ TunerIdle
  /\ NNDesIdle
  /\ ReaderIdle
  /\ OracleIdle
  /\ data_ = SampleData
  /\ query = NoQuery
  /\ op = NoOp
  /\ \E pmgr \in ParamSets :
       \/ /\ ~ProjCtor(pmgr).threw
          /\ method = METH_PROJ_VPTREE
          /\ knn_amp_ = ProjCtor(pmgr).knn
          /\ db_scan_frac_ = ProjCtor(pmgr).frac
          /\ db_scan_qty_ = 0
          /\ projData_ = ProjCtor(pmgr).projData
       \/ /\ ~hasParam(pmgr, "knnAmp")
          /\ ~PermBinCtor(pmgr).threw
          /\ method = METH_PERM_BIN_VPTREE
          /\ knn_amp_ = 0
          /\ db_scan_frac_ = Zero
          /\ db_scan_qty_ = PermBinCtor(pmgr).qty
          /\ projData_ = PermBinCtor(pmgr).projData
  /\ \E sur \in SurrogateOrders, qs \in [Threads -> ThreadQueries] :
       thr = [sur |-> sur, q |-> qs]

\* lines 199-207 / 226-229: thread t fixes db_scan_qty, or throws
ThrComputeQty(t) ==
  /\ thr.q[t].pc = "new"
  /\ \E o \in ScanQtyOutcomes(thr.q[t]) :
       thr' = IF o.err
              THEN [thr EXCEPT !.q[t].pc = "failed", !.q[t].err = TRUE]
              ELSE [thr EXCEPT !.q = StoreScanQty(thr.q, t, o.qty)]
  /\ UNCHANGED <<prunerVars, call, vpVars, wrapVars, tuner, nndes, reader, oracle>>

\* lines 208-215 / 231-238: thread t projects the query, searches the
\* underlying VP-tree with its own KNNQuery and clones the result queue
ThrSurrogateSearch(t) ==
  /\ thr.q[t].pc = "computed"
  /\ thr' = [thr EXCEPT !.q[t].ResQueue = ThreadResQueue(thr.q[t], thr.sur),
                        !.q[t].pc = "searched"]
  /\ UNCHANGED <<prunerVars, call, vpVars, wrapVars, tuner, nndes, reader, oracle>>

\* lines 217-221 / 240-244: thread t offers the candidates to its query
ThrRerank(t) ==
  /\ thr.q[t].pc = "searched"
  /\ thr' = [thr EXCEPT !.q[t].result = ThreadRerank(thr.q[t]),
                        !.q[t].pc = "done"]
  /\ UNCHANGED <<prunerVars, call, vpVars, wrapVars, tuner, nndes, reader, oracle>>

ConcNext ==
  \E t \in Threads :
    \/ ThrComputeQty(t)
    \/ ThrSurrogateSearch(t)
    \/ ThrRerank(t)

SpecConc == ConcInit /\ [][ConcNext]_vars

\* the query a thread set out with
InitialQuery(q) ==
  [q EXCEPT !.pc = "new", !.db_scan_qty = 0, !.ResQueue = <<>>, !.result = {},
            !.err = FALSE]

\* C20: concurrent Search calls on one built wrapper are safe: a Search
\* writes no member of the index, and under every interleaving of two Search
\* calls each returns what it returns when run alone.
C20_ConcurrentSearchSafe ==
  /\ [](\A t \in Threads :
          thr.q[t].pc \in {"done", "failed"}
            => [err |-> thr.q[t].err, result |-> thr.q[t].result]
                 \in AloneOutcomes(InitialQuery(thr.q[t]), thr.sur))
  /\ [][UNCHANGED <<method, knn_amp_, db_scan_frac_, db_scan_qty_, data_,
                    projData_, prunerVars>>]_vars

\* both threads are done, with different numbers of candidates and
\* different answers
C20_Witness ==
  /\ thr # <<>>
  /\ \A t \in Threads : thr.q[t].pc = "done"
  /\ thr.q[1].db_scan_qty # thr.q[2].db_scan_qty
  /\ thr.q[1].result # thr.q[2].result
  /\ thr.q[1].result # {}

---------------------------------------------------------------------------
(* ReadDataset of VectorSpace (space_vector.cc) and of SpaceBitHamming     *)
(* (space_bit_hamming.cc) as a state machine: one step is one pass of the  *)
(* loop over the lines of the input file.  A line is modelled by what      *)
(* ReadVec gets from it: the number of values parsed, and for the          *)
(* bit-Hamming space whether a value other than 0 and 1 is among them.     *)

\* the number of bits Binarize packs into one uint32_t
WordBits == 32

\* the lines of an input file of a vector space
VectorLines == [n : 0..MaxDim, bad : {FALSE}]

\* the lines of an input file of the bit-Hamming space
BitLines == [n : {0, 1, WordBits, WordBits + 1}, bad : {FALSE}] \cup {[n |-> 1, bad |-> TRUE]}

\* all sequences over S of length at most n
RECURSIVE SeqsUpTo(_, _)
SeqsUpTo(S, n) ==
  IF n = 0 THEN {<<>>}
  ELSE LET shorter == SeqsUpTo(S, n - 1)
       IN  shorter \cup {Append(q, x) : q \in {r \in shorter : Len(r) = n - 1}, x \in S}

\* the number of elements of the vector ReadVec returns for a line
ReadVecSize(space, line) ==
  IF space = "bit_hamming"
  THEN (line.n + WordBits - 1) \div WordBits
  ELSE line.n

\* mutant: the id is taken after linenum is incremented
ObjectIdAfterIncrement(linenum) == linenum + 1

\* id = linenum; ++linenum; CreateObjFromVect(id, label, temp)
ObjectId(linenum) == linenum

\* ReadDataset is called on a file with these lines
ReaderStart(space, lines, MaxNumObjects, cfgDim) ==
  [pc |-> "loop", space |-> space, lines |-> lines,
   MaxNumObjects |-> MaxNumObjects, cfgDim |-> cfgDim,
   linenum |-> 0, dim |-> 0, dataset |-> <<>>]

ReaderInit ==
  /\ \/ \E lines \in SeqsUpTo(VectorLines, MaxLines), MaxNumObjects \in 0..(MaxLines - 1),
           cfgDim \in 0..MaxDim :
          reader = ReaderStart("vector", lines, MaxNumObjects, cfgDim)
     \/ \E lines \in SeqsUpTo(BitLines, MaxLines), MaxNumObjects \in 0..(MaxLines - 1) :
          reader = ReaderStart("bit_hamming", lines, MaxNumObjects, 0)
  /\ alpha_left_ = One
  /\ exp_left_ = 1
  /\ alpha_right_ = One
  /\ exp_right_ = 1
  /\ call = NoCall
  /\ VPIdle
  /\ WrapIdle
  /\ TunerIdle
  /\ NNDesIdle
  /\ ThrIdle
  /\ OracleIdle

\* the loop condition: getline succeeds and the object limit is not reached
ReaderHasLine(rd) ==
  /\ rd.linenum < Len(rd.lines)
  /\ (rd.MaxNumObjects = 0 \/ rd.linenum < rd.MaxNumObjects)

\* one pass of the loop body of ReadDataset on the state rd
ReadLineOutcome(rd) ==
  LET line == rd.lines[rd.linenum + 1]
      currDim == ReadVecSize(rd.space, line)
      dim == IF rd.dim = 0 THEN currDim ELSE rd.dim
      useCfg == rd.space = "vector" /\ rd.cfgDim # 0
      actualDim == IF useCfg THEN rd.cfgDim ELSE dim
      len == IF rd.space = "vector" THEN actualDim ELSE currDim
  IN  IF line.bad \/ (rd.dim # 0 /\ rd.dim # currDim) \/ (useCfg /\ rd.cfgDim > currDim)
      THEN [rd EXCEPT !.pc = "fatal"]
      ELSE [rd EXCEPT !.dim = dim,
                      !.linenum = rd.linenum + 1,
                      !.dataset = Append(rd.dataset,
                                         [id |-> ObjectId(rd.linenum), len |-> len])]

ReadLine ==
  /\ reader.pc = "loop"
  /\ ReaderHasLine(reader)
  /\ reader' = ReadLineOutcome(reader)
  /\ UNCHANGED <<prunerVars, call, vpVars, wrapVars, tuner, nndes, thr, oracle>>

\* the loop ends: ReadDataset returns
ReadEnd ==
  /\ reader.pc = "loop"
  /\ ~ReaderHasLine(reader)
  /\ reader' = [reader EXCEPT !.pc = "done"]
  /\ UNCHANGED <<prunerVars, call, vpVars, wrapVars, tuner, nndes, thr, oracle>>

ReaderNext ==
  \/ ReadLine
  \/ ReadEnd

SpecReader == ReaderInit /\ [][ReaderNext]_vars

---------------------------------------------------------------------------
(* Claims about ReadDataset (checked under SpecReader)                     *)

\* C21: after ReadDataset the object at position i of the dataset has
\* identifier i, so identifiers are non-negative and unique.
C21_IdIsPosition ==
  reader.pc # "idle"
    => \A i \in 1..Len(reader.dataset) : reader.dataset[i].id = i - 1

\* a file of the bit-Hamming space read to the end, several objects
C21_Witness ==
  /\ reader.pc = "done"
  /\ reader.space = "bit_hamming"
  /\ Len(reader.dataset) = MaxLines

\* C22: all objects ReadDataset places in the dataset have the same number
\* of elements; a line whose element count differs from an earlier line
\* stops loading with a fatal error.
C22_SameSizeOrFatal ==
  reader.pc # "idle"
    => \A i, j \in 1..Len(reader.dataset) :
         reader.dataset[i].len = reader.dataset[j].len

---------------------------------------------------------------------------
(* Claims about the query-time parameters of ProjectionVPTree (SpecWrap)   *)

\* C23: ProjectionVPTree never searches with dbScanFrac outside [0,1]: every
\* search, range or k-NN, issued while dbScanFrac < 0 or dbScanFrac > 1
\* fails, so a successful search requests between 1 and N candidates.
C23_FracOutOfRangeFails ==
  (method = METH_PROJ_VPTREE /\ op.name \in {"knn", "range"})
    => /\ (db_scan_frac_[1] < 0 \/ db_scan_frac_[1] > db_scan_frac_[2]) => op.err
       /\ ~op.err => (1 <= op.qty /\ op.qty <= DataSize)

\* C24: after construction and after every successful SetQueryTimeParams of
\* ProjectionVPTree, knn_amp_ and db_scan_frac_ are never both non-zero.
C24_NotBothNonZero ==
  method = METH_PROJ_VPTREE => (knn_amp_ = 0 \/ db_scan_frac_ = Zero)

\* an index built with dbScanFrac is switched to knnAmp
C24_Witness ==
  /\ method = METH_PROJ_VPTREE
  /\ op.name = "setparams"
  /\ ~op.err
  /\ hasParam(op.pmgr, "knnAmp")
  /\ knn_amp_ = MaxAmp
  /\ db_scan_frac_ = Zero

\* C25: a SetQueryTimeParams call that names neither dbScanFrac nor knnAmp
\* (only alphaLeft, say) resets both to 0, and with both 0 every k-NN and
\* every range query fails with the candidate-count error; the two members
\* change only in a constructor or a SetQueryTimeParams call.
C25_NeitherNamedResetsBoth ==
  /\ []((method = METH_PROJ_VPTREE /\ op.name = "setparams" /\ ~hasParam(op.pmgr, "dbScanFrac") /\ ~hasParam(op.pmgr, "knnAmp"))
          => (~op.err /\ knn_amp_ = 0 /\ db_scan_frac_ = Zero))
  /\ []((/\ method = METH_PROJ_VPTREE
         /\ op.name \in {"knn", "range"}
         /\ knn_amp_ = 0
         /\ db_scan_frac_ = Zero)
          => (op.err /\ op.qty = 0 /\ ~op.searched /\ query.result = {}))
  /\ [][(knn_amp_' # knn_amp_ \/ db_scan_frac_' # db_scan_frac_)
          => op'.name \in {"construct", "setparams"}]_vars

\* a call naming only alphaLeft has reset both members and reached the pruner
C25_Witness ==
  /\ method = METH_PROJ_VPTREE
  /\ op.name = "setparams"
  /\ ~op.err
  /\ ~hasParam(op.pmgr, "dbScanFrac")
  /\ ~hasParam(op.pmgr, "knnAmp")
  /\ hasParam(op.pmgr, "alphaLeft")
  /\ ~hasParam(op.pmgr, "alphaRight")
  /\ alpha_left_ = <<2, 1>>
  /\ knn_amp_ = 0
  /\ db_scan_frac_ = Zero

---------------------------------------------------------------------------
(* PolynomialPruner<dist_t> and TriangIneq<dist_t> side by side.  The two   *)
(* Classify functions subtract in different types: PolynomialPruner forms   *)
(* the difference in dist_t and converts it to double, TriangIneq converts  *)
(* to double and then subtracts.  Distances are non-negative integers here; *)
(* a float holds an integer exactly up to 2^24 and rounds above it, a       *)
(* double holds every integer of the model exactly.                         *)

\* the number of bits of the significand of a float
FloatMantBits == 24

\* the distance between neighbouring floats around the integer x >= 0
RECURSIVE Ulp(_)
Ulp(x) == IF x < 2^FloatMantBits THEN 1 ELSE 2 * Ulp(x \div 2)

\* the float nearest to the integer x >= 0, ties to the even significand
RoundToFloat(x) ==
  LET u == Ulp(x)
      q == x \div u
      r == x % u
  IN  IF 2 * r < u THEN q * u
      ELSE IF 2 * r > u THEN (q + 1) * u
      ELSE IF q % 2 = 0 THEN q * u
      ELSE (q + 1) * u

\* a - b computed in dist_t, for a >= b >= 0
SubDistT(dist_t, a, b) ==
  IF dist_t = "float" THEN RoundToFloat(a - b) ELSE a - b

\* the distances of type dist_t tried by the model
DistVals(dist_t) ==
  IF dist_t = "float"
  THEN (0..MaxDistVal) \cup {2^FloatMantBits, 2^FloatMantBits + 2}
  ELSE 0..MaxDistVal

\* PolynomialPruner<dist_t>::Classify: the difference is taken in dist_t
PolynomialClassify(dist_t, aL, eL, aR, eR, distQueryPivot, MaxDist, MedianDist) ==
  IF /\ distQueryPivot <= MedianDist
     /\ LessThanStretched(MaxDist, aL,
                          EfficientPow(SubDistT(dist_t, MedianDist, distQueryPivot), eL))
  THEN kVisitLeft
  ELSE IF /\ distQueryPivot >= MedianDist
          /\ LessThanStretched(MaxDist, aR,
                               EfficientPow(SubDistT(dist_t, distQueryPivot, MedianDist), eR))
       THEN kVisitRight
       ELSE kVisitBoth

\* TriangIneq<dist_t>::Classify: the difference is taken in double
TriangIneqClassify(aL, aR, dist, MaxDist, MedianDist) ==
  IF LessThanStretched(MaxDist, aL, MedianDist - dist) THEN kVisitLeft
  ELSE IF LessThanStretched(MaxDist, aR, dist - MedianDist) THEN kVisitRight
  ELSE kVisitBoth

\* the same question is put to a PolynomialPruner with the current members
\* and to a TriangIneq constructed with the same alpha_left_, alpha_right_
DoClassifyBoth ==
  \E dist_t \in {"int", "float"} :
    \E dq \in DistVals(dist_t), R \in DistVals(dist_t), M \in DistVals(dist_t) :
      /\ call' = [kind |-> "both", dist_t |-> dist_t, dq |-> dq, R |-> R, M |-> M,
                  dec |-> PolynomialClassify(dist_t, alpha_left_, exp_left_,
                                             alpha_right_, exp_right_, dq, R, M),
                  tri |-> TriangIneqClassify(alpha_left_, alpha_right_, dq, R, M)]
      /\ UNCHANGED prunerVars
      /\ UNCHANGED <<vpVars, wrapVars, moreVars>>

\* PolynomialPruner::SetParams with expLeft = expRight = 1, the exponents of
\* the triangle inequality
SetParamsExpOne ==
  \E aL \in AlphaSet, aR \in AlphaSet :
    /\ alpha_left_' = aL
    /\ exp_left_' = 1
    /\ alpha_right_' = aR
    /\ exp_right_' = 1
    /\ call' = NoCall
    /\ UNCHANGED <<vpVars, wrapVars, moreVars>>

InterchangeNext ==
  \/ SetParamsExpOne
  \/ DoClassifyBoth

SpecInterchange == PrunerInit /\ [][InterchangeNext]_vars

\* C26: the polynomial pruner with expLeft = expRight = 1 and TriangIneq with
\* the same alphaLeft, alphaRight > 0 return the same decision for every dq,
\* M and Rmax >= 0.
C26_SameDecisionAsTriangIneq ==
  (call.kind = "both" /\ exp_left_ = 1 /\ exp_right_ = 1)
    => call.dec = call.tri

---------------------------------------------------------------------------
(* SamplingOracle (searchoracle.h): the learned tables and Classify        *)

\* the CHECK in Classify failed: the process is aborted
kCheckFailed == 4

\* std::lower_bound on the sorted vector v: the 0-based index of the first
\* element that is not less than x, v.size() if there is none
LowerBound(v, x) ==
  IF \E i \in 1..Len(v) : ~(v[i] < x)
  THEN (CHOOSE i \in 1..Len(v) : ~(v[i] < x) /\ \A j \in 1..(i - 1) : v[j] < x) - 1
  ELSE Len(v)

\* mutant: Classify without the test of dist == MedianDist at its entry
SamplingClassifyNoMedianTest(o, dist, MaxDist, MedianDist) ==
  LET quant == LowerBound(o.QuantilePivotDists, dist)
  IN  IF o.NotEnoughData_ THEN kVisitBoth
      ELSE IF dist < o.QuantilePivotDists[1] THEN kVisitBoth
      ELSE IF quant = Len(o.QuantilePivotDists) THEN kVisitBoth
      ELSE IF quant >= Len(o.QuantileMaxPseudoQueryDists) THEN kVisitBoth
      ELSE IF o.QuantileMaxPseudoQueryDists[quant + 1] <= MaxDist THEN kVisitBoth
      ELSE IF ~(dist # MedianDist) THEN kCheckFailed
      ELSE IF dist < MedianDist THEN kVisitLeft
      ELSE kVisitRight

\* SamplingOracle::Classify(dist, MaxDist, MedianDist) on the oracle o
SamplingClassify(o, dist, MaxDist, MedianDist) ==
  LET quant == LowerBound(o.QuantilePivotDists, dist)
  IN  IF o.NotEnoughData_ \/ dist = MedianDist THEN kVisitBoth
      ELSE IF dist < o.QuantilePivotDists[1] THEN kVisitBoth
      ELSE IF quant = Len(o.QuantilePivotDists) THEN kVisitBoth
      ELSE IF quant >= Len(o.QuantileMaxPseudoQueryDists) THEN kVisitBoth
      ELSE IF o.QuantileMaxPseudoQueryDists[quant + 1] <= MaxDist THEN kVisitBoth
      ELSE IF ~(dist # MedianDist) THEN kCheckFailed
      ELSE IF dist < MedianDist THEN kVisitLeft
      ELSE kVisitRight

\* the oracles a constructor can leave behind: the pivot quantiles are
\* sorted, and not empty when there is enough data
Oracles ==
  {o \in [state : {"built"},
          NotEnoughData_ : BOOLEAN,
          QuantilePivotDists : SeqsUpTo(0..MaxQDist, MaxQuant),
          QuantileMaxPseudoQueryDists : SeqsUpTo(0..MaxQDist, MaxQuant),
          call : {NoCall}] :
     /\ \A i \in 1..(Len(o.QuantilePivotDists) - 1) :
          o.QuantilePivotDists[i] <= o.QuantilePivotDists[i + 1]
     /\ ~o.NotEnoughData_ => o.QuantilePivotDists # <<>>}

OracleInit ==
  /\ oracle \in Oracles
  /\ alpha_left_ = One
  /\ exp_left_ = 1
  /\ alpha_right_ = One
  /\ exp_right_ = 1
  /\ call = NoCall
  /\ VPIdle
  /\ WrapIdle
  /\ TunerIdle
  /\ NNDesIdle
  /\ ThrIdle
  /\ ReaderIdle

\* one call of SamplingOracle::Classify
OracleClassify ==
  /\ oracle.state = "built"
  /\ \E dist \in 0..MaxQDist, MaxDist \in 0..MaxQDist, MedianDist \in 0..MaxQDist :
       oracle' = [oracle EXCEPT
                    !.call = [kind |-> "classify", dist |-> dist, MaxDist |-> MaxDist,
                              MedianDist |-> MedianDist,
                              dec |-> SamplingClassify(oracle, dist, MaxDist, MedianDist)]]
  /\ UNCHANGED <<prunerVars, call, vpVars, wrapVars, tuner, nndes, thr, reader>>

SpecOracle == OracleInit /\ [][OracleClassify]_vars

\* the quantile of the pivot distances the query falls into: the number of
\* quantile boundaries below dist
QueryQuantile(o, dist) ==
  Cardinality({i \in 1..Len(o.QuantilePivotDists) : o.QuantilePivotDists[i] < dist})

\* C27: SamplingOracle::Classify returns Both whenever dist = MedianDist or the
\* oracle has not enough data, so its CHECK(dist != MedianDist) never fails;
\* a one-sided decision names the side that holds the query (Left iff
\* dist < MedianDist, Right iff dist > MedianDist), and then the learned
\* radius of the query's quantile is strictly greater than MaxDist.
C27_SamplingOracleSafe ==
  oracle.call.kind = "classify"
    => LET c == oracle.call
           quant == QueryQuantile(oracle, c.dist)
       IN  /\ c.dec # kCheckFailed
           /\ (oracle.NotEnoughData_ \/ c.dist = c.MedianDist) => c.dec = kVisitBoth
           /\ c.dec = kVisitLeft => c.dist < c.MedianDist
           /\ c.dec = kVisitRight => c.dist > c.MedianDist
           /\ c.dec \in {kVisitLeft, kVisitRight}
                => /\ quant < Len(oracle.QuantileMaxPseudoQueryDists)
                   /\ oracle.QuantileMaxPseudoQueryDists[quant + 1] > c.MaxDist

\* a one-sided decision in a quantile that is not the first
C27_Witness ==
  /\ oracle.call.kind = "classify"
  /\ oracle.call.dec = kVisitRight
  /\ QueryQuantile(oracle, oracle.call.dist) > 0

---------------------------------------------------------------------------
(* A further claim about the tuner (checked under SpecTuner)               *)

\* the seven values RunExper tracks across the runs
TrackedValues(t) ==
  <<t.recall, t.time_best, t.impr_best, t.alpha_left, t.alpha_right,
    t.exp_left, t.exp_right>>

\* the seven values as one run produced them
RunValues(r) ==
  <<r.res.recall, r.res.time, r.res.impr, r.res.alpha_left, r.res.alpha_right,
    r.expLeft, r.expRight>>

\* C28: once a run has been made, the seven tracked values (recall, best
\* time, best improvement, alphaLeft, alphaRight, expLeft, expRight) all come
\* from one and the same run, the earliest run whose improvement equals the
\* maximum seen so far; a run that does not strictly improve on that maximum
\* leaves all seven unchanged.
C28_TrackedValuesFromOneRun ==
  /\ []((tuner.pc # "idle" /\ tuner.nruns > 0)
          => /\ tuner.adopted # <<>>
             /\ TrackedValues(tuner) = RunValues(tuner.adopted[1])
             /\ tuner.impr_best = tuner.maxSeen
             /\ tuner.adopted[1].run = tuner.firstMax)
  /\ [][(/\ tuner.pc = "loop"
         /\ tuner.nruns > 0
         /\ tuner'.nruns = tuner.nruns + 1
         /\ tuner'.maxSeen = tuner.maxSeen)
          => TrackedValues(tuner') = TrackedValues(tuner)]_vars

\* a later run equals the best improvement with other values and is not
\* taken over: the tracked recall and exponent are those of run 1
C28_Witness ==
  /\ tuner.pc = "report"
  /\ tuner.nruns > 2
  /\ tuner.firstMax = 1
  /\ tuner.maxSeen = 1
  /\ tuner.exp_left = tuner.MinExp
  /\ tuner.MinExp < tuner.MaxExp

---------------------------------------------------------------------------
(* The k-NN search of NNDescentMethodOld (nndes_old.cc) as a state machine. *)
(* The index holds a neighbour graph nn over the dataset; the query is     *)
(* given by its distance qdist[id] to every object.  One step is the start *)
(* of an attempt at a random object, one pass of the loop of the walk, or  *)
(* the final hand-over of the small-world result.  evals counts the        *)
(* distance evaluations per object, offers lists the objects handed to     *)
(* CheckAndAddToResult, result is the queue of the KNNQuery.               *)

\* KNNEntry::BAD, the key of an unused entry of a neighbour list
BAD == -1

\* the neighbour lists of object id: distinct other objects, padded with BAD
NeighbourLists(id) ==
  {q \in [1..MaxNN -> (Ids \ {id}) \cup {BAD}] :
     /\ \A i, j \in 1..MaxNN : (i < j /\ q[i] # BAD) => q[i] # q[j]
     /\ \A i \in 1..(MaxNN - 1) : q[i] = BAD => q[i + 1] = BAD}

\* std::pair operator<
PairLess(a, b) == a[1] < b[1] \/ (a[1] = b[1] /\ a[2] < b[2])

\* the greatest pair of a set: top() of a priority_queue, *rbegin() of a set
MaxPair(S) == CHOOSE x \in S : \A y \in S : ~PairLess(x, y)

\* the sequence q, sorted ascending, with x inserted
InsertSorted(q, x) ==
  LET n == Cardinality({i \in 1..Len(q) : ~PairLess(x, q[i])})
  IN  SubSeq(q, 1, n) \o <<x>> \o SubSeq(q, n + 1, Len(q))

\* KNNQuery::CheckAndAddToResult(d, object id) on the queue q of a query with
\* K = k: push while the queue is not full, else replace the top if d is
\* smaller than the top distance
CheckAndAddToResult(q, k, d, id) ==
  IF Len(q) < k THEN InsertSorted(q, <<d, id>>)
  ELSE IF k > 0 /\ d < q[Len(q)][1]
       THEN InsertSorted(SubSeq(q, 1, Len(q) - 1), <<d, id>>)
       ELSE q

\* query->DistanceObjLeft(data_[id]) is evaluated
Evaluate(ix, id) == [ix EXCEPT !.evals[id] = @ + 1]

\* query->CheckAndAddToResult(d, data_[id])
Offer(ix, d, id) ==
  [ix EXCEPT !.offers = Append(@, id),
             !.result = CheckAndAddToResult(@, ix.K, d, id)]

\* the index and the query when Search(KNNQuery*) is entered
KnnSearchStart(greedy, attempts, searchNN, nn, qdist, k) ==
  [state |-> "knn", greedy_ |-> greedy, initSearchAttempts_ |-> attempts,
   searchNN_ |-> searchNN, nn |-> nn, qdist |-> qdist, K |-> k,
   pc |-> IF attempts > 0 THEN "attempt" ELSE IF greedy THEN "done" ELSE "finish",
   i |-> 0, curr |-> BAD, currDist |-> 0,
   visitedNodes |-> {}, resultSet |-> {}, candidateSet |-> {},
   closestDistQueue |-> <<>>,
   evals |-> [id \in Ids |-> 0], offers |-> <<>>, result |-> <<>>]

NNDesKnnInit ==
  /\ \E greedy \in BOOLEAN, attempts \in 0..MaxAttempts, searchNN \in 1..MaxNN,
        nn \in [Ids -> UNION {NeighbourLists(id) : id \in Ids}],
        qdist \in [Ids -> 0..MaxOrigDist], k \in {MaxK} :
       /\ \A id \in Ids : nn[id] \in NeighbourLists(id)
       /\ greedy => searchNN = 1
       /\ nndes = KnnSearchStart(greedy, attempts, searchNN, nn, qdist, k)
  /\ alpha_left_ = One
  /\ exp_left_ = 1
  /\ alpha_right_ = One
  /\ exp_right_ = 1
  /\ call = NoCall
  /\ VPIdle
  /\ WrapIdle
  /\ TunerIdle
  /\ ThrIdle
  /\ ReaderIdle
  /\ OracleIdle

\* the end of one pass of the loop over i
EndAttempt(ix) ==
  [ix EXCEPT !.i = ix.i + 1,
             !.pc = IF ix.i + 1 < ix.initSearchAttempts_ THEN "attempt"
                    ELSE IF ix.greedy_ THEN "done" ELSE "finish"]

\* SearchGreedy, lines 223-227: the attempt starts at a random object
GreedyStart ==
  /\ nndes.state = "knn"
  /\ nndes.greedy_
  /\ nndes.pc = "attempt"
  /\ \E curr \in Ids :
       LET currDist == nndes.qdist[curr]
           ix == Offer(Evaluate(nndes, curr), currDist, curr)
       IN  nndes' = [ix EXCEPT !.curr = curr, !.currDist = currDist, !.pc = "walk"]
  /\ UNCHANGED <<prunerVars, call, vpVars, wrapVars, tuner, thr, reader, oracle>>

\* SearchGreedy, lines 235-245: the loop over the neighbours of currOld from
\* entry j on
RECURSIVE GreedyScan(_, _, _)
GreedyScan(ix, nbrs, j) ==
  IF j > Len(nbrs) THEN ix
  ELSE LET currNew == nbrs[j]
       IN  IF currNew = BAD THEN GreedyScan(ix, nbrs, j + 1)
           ELSE LET currDistNew == ix.qdist[currNew]
                    ix1 == Offer(Evaluate(ix, currNew), currDistNew, currNew)
                    ix2 == IF currDistNew < ix1.currDist
                           THEN [ix1 EXCEPT !.curr = currNew, !.currDist = currDistNew]
                           ELSE ix1
                IN  GreedyScan(ix2, nbrs, j + 1)

\* SearchGreedy, lines 232-246: one pass of the do-while loop
GreedyPass ==
  /\ nndes.state = "knn"
  /\ nndes.greedy_
  /\ nndes.pc = "walk"
  /\ LET currOld == nndes.curr
         ix == GreedyScan(nndes, nndes.nn[currOld], 1)
     IN  nndes' = IF currOld # ix.curr THEN ix ELSE EndAttempt(ix)
  /\ UNCHANGED <<prunerVars, call, vpVars, wrapVars, tuner, thr, reader, oracle>>

\* SearchSmallWorld, lines 157-172: the attempt starts at a random object
SmallWorldStart ==
  /\ nndes.state = "knn"
  /\ ~nndes.greedy_
  /\ nndes.pc = "attempt"
  /\ \E randPoint \in Ids :
       LET d == nndes.qdist[randPoint]
           ev == <<-d, randPoint>>
           ix == Evaluate(nndes, randPoint)
       IN  nndes' = [ix EXCEPT !.candidateSet = {ev},
                               !.closestDistQueue = <<d>>,
                               !.visitedNodes = @ \cup {randPoint},
                               !.resultSet = @ \cup {ev},
                               !.pc = "expand"]
  /\ UNCHANGED <<prunerVars, call, vpVars, wrapVars, tuner, thr, reader, oracle>>

\* the sequence of distances q, sorted ascending, with d inserted
InsertDist(q, d) ==
  LET n == Cardinality({i \in 1..Len(q) : q[i] <= d})
  IN  SubSeq(q, 1, n) \o <<d>> \o SubSeq(q, n + 1, Len(q))

\* SearchSmallWorld, lines 189-205: the loop over the neighbours from entry j
RECURSIVE SmallWorldScan(_, _, _)
SmallWorldScan(ix, nbrs, j) ==
  IF j > Len(nbrs) THEN ix
  ELSE LET currNew == nbrs[j]
       IN  IF currNew = BAD \/ currNew \in ix.visitedNodes
           THEN SmallWorldScan(ix, nbrs, j + 1)
           ELSE LET d == ix.qdist[currNew]
                    evE1 == <<-d, currNew>>
                    pushed == InsertDist(ix.closestDistQueue, d)
                    ix1 == [Evaluate(ix, currNew) EXCEPT
                              !.visitedNodes = @ \cup {currNew},
                              !.closestDistQueue =
                                 IF Len(pushed) > ix.searchNN_
                                 THEN SubSeq(pushed, 1, Len(pushed) - 1)
                                 ELSE pushed,
                              !.candidateSet = @ \cup {evE1},
                              !.resultSet = @ \cup {evE1}]
                IN  SmallWorldScan(ix1, nbrs, j + 1)

\* SearchSmallWorld, lines 174-206: one pass of the while loop
SmallWorldExpand ==
  /\ nndes.state = "knn"
  /\ ~nndes.greedy_
  /\ nndes.pc = "expand"
  /\ IF nndes.candidateSet = {}
     THEN nndes' = EndAttempt(nndes)
     ELSE LET currEv == MaxPair(nndes.candidateSet)
              lowerBound == nndes.closestDistQueue[Len(nndes.closestDistQueue)]
              popped == [nndes EXCEPT !.candidateSet = @ \ {currEv}]
          IN  nndes' = IF (-currEv[1]) > lowerBound
                       THEN EndAttempt(nndes)
                       ELSE SmallWorldScan(popped, nndes.nn[currEv[2]], 1)
  /\ UNCHANGED <<prunerVars, call, vpVars, wrapVars, tuner, thr, reader, oracle>>

\* SearchSmallWorld, lines 209-215: the k greatest entries of resultSet, from
\* the greatest on, are handed to the query
RECURSIVE SmallWorldOffer(_, _, _)
SmallWorldOffer(ix, rest, k) ==
  IF k = 0 \/ rest = {} THEN ix
  ELSE LET ev == MaxPair(rest)
       IN  SmallWorldOffer(Offer(ix, -ev[1], ev[2]), rest \ {ev}, k - 1)

SmallWorldFinish ==
  /\ nndes.state = "knn"
  /\ ~nndes.greedy_
  /\ nndes.pc = "finish"
  /\ nndes' = [SmallWorldOffer(nndes, nndes.resultSet, nndes.K) EXCEPT !.pc = "done"]
  /\ UNCHANGED <<prunerVars, call, vpVars, wrapVars, tuner, thr, reader, oracle>>

NNDesKnnNext ==
  \/ GreedyStart
  \/ GreedyPass
  \/ SmallWorldStart
  \/ SmallWorldExpand
  \/ SmallWorldFinish

SpecNNDesKnn == NNDesKnnInit /\ [][NNDesKnnNext]_vars

\* every step of the search is taken eventually: Search runs to its end
SpecNNDesKnnLive == SpecNNDesKnn /\ WF_vars(NNDesKnnNext)

---------------------------------------------------------------------------
(* Claims about the k-NN search of the NN-descent index                    *)

\* C29: both k-NN searches of the NN-descent index terminate; the greedy walk
\* moves only to a strictly closer neighbour and stops when no neighbour is
\* closer; the small-world search evaluates each object at most once per
\* query, across all initSearchAttempts restarts.
C29_SearchTerminates ==
  /\ <>(nndes.pc = "done")
  /\ [][(nndes.greedy_ /\ nndes.pc = "walk" /\ nndes'.pc = "walk")
          => /\ nndes'.curr # nndes.curr
             /\ nndes'.qdist[nndes'.curr] < nndes.qdist[nndes.curr]]_vars
  /\ [][(nndes.greedy_ /\ nndes.pc = "walk" /\ nndes'.pc # "walk")
          => /\ nndes'.curr = nndes.curr
             /\ \A j \in 1..Len(nndes.nn[nndes.curr]) :
                  LET e == nndes.nn[nndes.curr][j]
                  IN  e # BAD => ~(nndes.qdist[e] < nndes.qdist[nndes.curr])]_vars
  /\ [](~nndes.greedy_ => \A id \in Ids : nndes.evals[id] <= 1)

\* C30: a k-NN query on the NN-descent index, greedy or small-world and for
\* any initSearchAttempts, offers each object to the query result at most
\* once, so the returned list never holds the same object twice.
C30_EachObjectOfferedOnce ==
  nndes.state = "knn"
    => /\ \A a, b \in 1..Len(nndes.offers) :
            a # b => nndes.offers[a] # nndes.offers[b]
       /\ \A a, b \in 1..Len(nndes.result) :
            a # b => nndes.result[a][2] # nndes.result[b][2]

=============================================================================
